---- MODULE Spec2Model ----
(***************************************************************************)
(* A model of the deterministic rules engine of the AI-MMO repository:     *)
(* the seeded PRNG (packages/rules-engine prng), skill checks, combat      *)
(* turns, loot drops, item instances and the leveling curve, and of the    *)
(* game service's command processor where it calls them.                   *)
(*                                                                         *)
(* Numbers.  BigInt values (the 64-bit generator state, 32-bit outputs)    *)
(* are little-endian sequences of bytes, so that the arithmetic keeps its  *)
(* width: TLC's own integers are 32-bit.  A JavaScript double that holds a *)
(* fraction is an exact rational [num, den] of such byte sequences; the    *)
(* rounding of double arithmetic is not modelled.                          *)
(***************************************************************************)
EXTENDS Integers, Sequences, FiniteSets, TLC

(***************************************************************************)
(* req is a call and its arguments, res the results of the calls made so   *)
(* far with these arguments, now the clock (Date.now()), entityMap the map *)
(* of combat entities that resolveCombatTurn changes, gens the generator   *)
(* objects that live from one call to the next.                            *)
(***************************************************************************)
VARIABLES req, res, now, entityMap, gens, db, inFlight, outbox, itemInstance

vars == <<req, res, now, entityMap, gens, db, inFlight, outbox, itemInstance>>

\* the game service's tables, its calls in flight and the events it emitted,
\* and the item instance that repairItem and degradeItem write
service == <<db, inFlight, outbox, itemInstance>>

\* no game service and no item instance
NoService == db = <<>> /\ inFlight = <<>> /\ outbox = <<>> /\ itemInstance = <<>>

(***************************************************************************)
(* Natural numbers as little-endian byte sequences                         *)
(***************************************************************************)
Digit(a, i) == IF i <= Len(a) THEN a[i] ELSE 0

RECURSIVE BigFromInt(_)
BigFromInt(n) == IF n = 0 THEN <<>> ELSE <<n % 256>> \o BigFromInt(n \div 256)

RECURSIVE BigToIntRec(_, _)
BigToIntRec(a, i) == IF i > Len(a) THEN 0 ELSE a[i] + 256 * BigToIntRec(a, i + 1)

BigToInt(a) == BigToIntRec(a, 1)

RECURSIVE BigAddRec(_, _, _, _, _)
BigAddRec(a, b, i, carry, n) ==
  IF i > n THEN (IF carry = 0 THEN <<>> ELSE <<carry>>)
  ELSE LET s == Digit(a, i) + Digit(b, i) + carry
       IN  <<s % 256>> \o BigAddRec(a, b, i + 1, s \div 256, n)

BigAdd(a, b) == BigAddRec(a, b, 1, 0, IF Len(a) > Len(b) THEN Len(a) ELSE Len(b))

RECURSIVE BigSubRec(_, _, _, _)
BigSubRec(a, b, i, borrow) ==
  IF i > Len(a) THEN <<>>
  ELSE LET d == a[i] - Digit(b, i) - borrow
       IN  <<(d + 256) % 256>> \o BigSubRec(a, b, i + 1, IF d < 0 THEN 1 ELSE 0)

\* a - b for a >= b
BigSub(a, b) == BigSubRec(a, b, 1, 0)

RECURSIVE BigMulSmallRec(_, _, _, _)
BigMulSmallRec(a, k, i, carry) ==
  IF i > Len(a) THEN BigFromInt(carry)
  ELSE LET p == a[i] * k + carry
       IN  <<p % 256>> \o BigMulSmallRec(a, k, i + 1, p \div 256)

\* a * k for an integer 0 <= k < 2^22
BigMulSmall(a, k) == BigMulSmallRec(a, k, 1, 0)

Zeros(n) == [i \in 1..n |-> 0]

RECURSIVE BigMulRec(_, _, _)
BigMulRec(a, b, i) ==
  IF i > Len(b) THEN <<>>
  ELSE BigAdd(Zeros(i - 1) \o BigMulSmall(a, b[i]), BigMulRec(a, b, i + 1))

BigMul(a, b) == BigMulRec(a, b, 1)

\* a mod 256^n, as exactly n bytes
Trunc(a, n) == [i \in 1..n |-> Digit(a, i)]

\* floor(a / 256^n)
DropBytes(a, n) == IF Len(a) <= n THEN <<>> ELSE SubSeq(a, n + 1, Len(a))

RECURSIVE BigCmpRec(_, _, _)
BigCmpRec(a, b, i) ==
  IF i = 0 THEN 0
  ELSE IF Digit(a, i) < Digit(b, i) THEN -1
  ELSE IF Digit(a, i) > Digit(b, i) THEN 1
  ELSE BigCmpRec(a, b, i - 1)

\* -1, 0, 1 as a < b, a = b, a > b
BigCmp(a, b) == BigCmpRec(a, b, IF Len(a) > Len(b) THEN Len(a) ELSE Len(b))

BigLeq(a, b) == BigCmp(a, b) <= 0
BigLt(a, b) == BigCmp(a, b) < 0

Pow2(k) == 2 ^ k

\* bit j (0 = least significant) of a
Bit(a, j) == IF j >= 8 * Len(a) THEN 0 ELSE (a[(j \div 8) + 1] \div Pow2(j % 8)) % 2

Xor(x, y) == (x + y) % 2

RECURSIVE SumTo(_, _, _)
SumTo(f(_), lo, hi) == IF lo > hi THEN 0 ELSE f(lo) + SumTo(f, lo + 1, hi)

RECURSIVE SeqSum(_)
SeqSum(s) == IF s = <<>> THEN 0 ELSE Head(s) + SeqSum(Tail(s))

\* the element of a one-element set { e(x) : x \in {v} }: e of the value of v,
\* with v evaluated once
The(S) == CHOOSE y \in S : TRUE

Max(a, b) == IF a > b THEN a ELSE b
Min(a, b) == IF a < b THEN a ELSE b

(***************************************************************************)
(* The exact rationals a double holds: [num, den], den > 0                 *)
(***************************************************************************)
Two32 == <<0, 0, 0, 0, 1>>

Rat(n, d) == [num |-> n, den |-> d]
RatInt(k) == Rat(BigFromInt(k), <<1>>)
RatMul(x, y) == Rat(BigMul(x.num, y.num), BigMul(x.den, y.den))
RatAdd(x, y) == Rat(BigAdd(BigMul(x.num, y.den), BigMul(y.num, x.den)), BigMul(x.den, y.den))
\* x - y for x >= y
RatSub(x, y) == Rat(BigSub(BigMul(x.num, y.den), BigMul(y.num, x.den)), BigMul(x.den, y.den))
RatLt(x, y) == BigLt(BigMul(x.num, y.den), BigMul(y.num, x.den))
RatLeq(x, y) == BigLeq(BigMul(x.num, y.den), BigMul(y.num, x.den))

RECURSIVE FloorSearch(_, _, _)
FloorSearch(x, lo, hi) ==
  IF lo = hi THEN lo
  ELSE LET mid == (lo + hi + 1) \div 2
       IN  IF BigLeq(BigMulSmall(x.den, mid), x.num)
           THEN FloorSearch(x, mid, hi)
           ELSE FloorSearch(x, lo, mid - 1)

RECURSIVE FloorBound(_, _)
FloorBound(x, hi) ==
  IF BigLt(x.num, BigMulSmall(x.den, hi)) THEN hi ELSE FloorBound(x, 2 * hi)

\* Math.floor of a rational 0 <= x < 2^21
RatFloor(x) == FloorSearch(x, 0, FloorBound(x, 1))

Tenths(k) == Rat(BigFromInt(k), <<10>>)

Hundredths(k) == Rat(BigFromInt(k), <<100>>)

(***************************************************************************)
(* class PRNG                                                              *)
(***************************************************************************)
\* 6364136223846793005n
PcgMultiplier == <<45, 127, 149, 76, 45, 244, 81, 88>>
\* 1013904223n
PcgIncrement == <<95, 243, 110, 60>>

\* this.state = (oldstate * 6364136223846793005n + this.inc) & 0xffffffffffffffffn
NextState(state, inc) == Trunc(BigAdd(BigMul(state, PcgMultiplier), inc), 8)

\* bit i of xorshifted = (((oldstate >> 18n) ^ oldstate) >> 27n) & 0xffffffffn
XorShiftedBit(oldstate, i) == Xor(Bit(oldstate, i + 27 + 18), Bit(oldstate, i + 27))

\* rot = Number(oldstate >> 59n)
Rot(oldstate) == oldstate[8] \div 8

\* bit i of ((xorshifted >>> rot) | (xorshifted << ((-rot) & 31))) >>> 0
OutputBit(oldstate, i) == XorShiftedBit(oldstate, (i + Rot(oldstate)) % 32)

OutputByte(oldstate, b) ==
  LET term(k) == OutputBit(oldstate, 8 * b + k) * Pow2(k) IN SumTo(term, 0, 7)

\* the value next() returns, a 32-bit unsigned integer as 4 bytes
Output(oldstate) == [b \in 1..4 |-> OutputByte(oldstate, b - 1)]

\* next(): the generator afterwards and the value returned
PrngNext(g) ==
  The({ [g |-> [state |-> NextState(old.state, old.inc), inc |-> old.inc],
         v |-> Output(old.state)] : old \in {g} })

\* random(): next() / 0x100000000
PrngRandom(g) == The({ [g |-> n.g, v |-> Rat(n.v, Two32)] : n \in {PrngNext(g)} })

\* randInt(min, max), for max - min + 1 < 2^22
PrngRandInt(g, min, max) ==
  LET lo == IF min > max THEN max ELSE min
      hi == IF min > max THEN min ELSE max
  IN  The({ [g |-> n.g, v |-> BigToInt(DropBytes(BigMulSmall(n.v, hi - lo + 1), 4)) + lo] :
            n \in {PrngNext(g)} })

\* randFloat(min, max) for rationals min, max: random() * (max - min) + min
PrngRandFloat(g, min, max) ==
  LET lo == IF RatLt(max, min) THEN max ELSE min
      hi == IF RatLt(max, min) THEN min ELSE max
  IN  The({ [g |-> r.g, v |-> RatAdd(RatMul(r.v, RatSub(hi, lo)), lo)] :
            r \in {PrngRandom(g)} })

\* a new generator: the state from the seed's hash, the fixed increment, and
\* the warm-up next() of the constructor
PrngNew(hashState) == PrngNext([state |-> hashState, inc |-> PcgIncrement]).g

(***************************************************************************)
(* rollDice: notations are sequences of characters                         *)
(***************************************************************************)
DigitChars == <<"0", "1", "2", "3", "4", "5", "6", "7", "8", "9">>

IsDigit(c) == \E d \in 1..10 : DigitChars[d] = c

DigitValue(c) == (CHOOSE d \in 1..10 : DigitChars[d] = c) - 1

\* the length of the run of digits of s that starts at index i
RECURSIVE DigitRun(_, _)
DigitRun(s, i) ==
  IF i <= Len(s) /\ IsDigit(s[i]) THEN 1 + DigitRun(s, i + 1) ELSE 0

\* parseInt(s.substring(i - 1, i - 1 + n), 10) for n digits
RECURSIVE ParseInt(_, _, _)
ParseInt(s, i, n) ==
  IF n = 0 THEN 0 ELSE ParseInt(s, i, n - 1) * 10 + DigitValue(s[i + n - 1])

NoMatch == [ok |-> FALSE, numDice |-> 0, sides |-> 0, operation |-> "", modifier |-> 0]

\* notation.match(/^(\d+)d(\d+)(?:([+-])(\d+))?$/i) and the parseInt calls
DiceMatch(notation) ==
  LET n1 == DigitRun(notation, 1)
      dAt == n1 + 1
      n2 == DigitRun(notation, dAt + 1)
      opAt == dAt + n2 + 1
      n3 == DigitRun(notation, opAt + 1)
  IN  IF n1 = 0 \/ dAt > Len(notation) \/ notation[dAt] \notin {"d", "D"} \/ n2 = 0
      THEN NoMatch
      ELSE IF opAt = Len(notation) + 1
      THEN [ok |-> TRUE, numDice |-> ParseInt(notation, 1, n1),
            sides |-> ParseInt(notation, dAt + 1, n2), operation |-> "", modifier |-> 0]
      ELSE IF notation[opAt] \in {"+", "-"} /\ n3 > 0 /\ opAt + n3 = Len(notation)
      THEN [ok |-> TRUE, numDice |-> ParseInt(notation, 1, n1),
            sides |-> ParseInt(notation, dAt + 1, n2), operation |-> notation[opAt],
            modifier |-> ParseInt(notation, opAt + 1, n3)]
      ELSE NoMatch

\* for (i < numDice) total += this.randInt(1, sides): the generator afterwards
\* and the draws in order
RECURSIVE DiceLoop(_, _, _)
DiceLoop(g, numDice, sides) ==
  IF numDice = 0 THEN [g |-> g, draws |-> <<>>]
  ELSE The({ The({ [g |-> rest.g, draws |-> <<d.v>> \o rest.draws] :
                     rest \in {DiceLoop(d.g, numDice - 1, sides)} }) :
              d \in {PrngRandInt(g, 1, sides)} })

DiceTotal(m, sum) ==
  Max(0, IF m.operation = "+" THEN sum + m.modifier
         ELSE IF m.operation = "-" THEN sum - m.modifier
         ELSE sum)

\* a faulty rollDice: a value is drawn before the notation is matched
PrngRollDiceEager(g, notation) ==
  The({ IF ~m.ok THEN [g |-> PrngNext(g).g, threw |-> TRUE, v |-> 0, draws |-> <<>>]
         ELSE The({ [g |-> loop.g, threw |-> FALSE,
                     v |-> DiceTotal(m, SeqSum(loop.draws)), draws |-> loop.draws] :
                    loop \in {DiceLoop(g, m.numDice, m.sides)} }) :
        m \in {DiceMatch(notation)} })

\* rollDice(notation): threw is the Error of an unmatched notation; draws are
\* the values randInt returned, kept for the record
PrngRollDice(g, notation) ==
  The({ IF ~m.ok THEN [g |-> g, threw |-> TRUE, v |-> 0, draws |-> <<>>]
         ELSE The({ [g |-> loop.g, threw |-> FALSE,
                     v |-> DiceTotal(m, SeqSum(loop.draws)), draws |-> loop.draws] :
                    loop \in {DiceLoop(g, m.numDice, m.sides)} }) :
        m \in {DiceMatch(notation)} })

(***************************************************************************)
(* createNamespacedSeed, createSubsystemPRNG                               *)
(***************************************************************************)
\* The first 16 hex digits, as a 64-bit integer, of
\*   sha256(sha256(`${worldSeed}:${subsystem}:${entityId}:${turnNumber}`).hex)
\* (createNamespacedSeed, then the PRNG constructor), for the seeds of the
\* model.  No identifier of the model holds a ':', so the tuple stands for
\* the combined string.
Sha256Seed ==
  <<"seed-A", "combat", "wolf-1", 0>> :> <<30, 191, 128, 181, 108, 171, 113, 54>> @@
  <<"seed-A", "combat", "wolf-78", 0>> :> <<206, 173, 111, 13, 114, 184, 151, 126>> @@
  <<"seed-A", "combat", "wolf-619", 0>> :> <<21, 113, 38, 72, 1, 62, 73, 129>> @@
  <<"seed-B", "combat", "wolf-1", 0>> :> <<103, 89, 68, 51, 25, 150, 157, 233>> @@
  <<"seed-B", "combat", "wolf-78", 0>> :> <<7, 204, 48, 87, 47, 228, 195, 206>> @@
  <<"seed-B", "combat", "wolf-619", 0>> :> <<71, 48, 87, 163, 102, 106, 26, 150>> @@
  <<"seed-A", "skills", "user-3", 0>> :> <<221, 116, 192, 237, 56, 119, 73, 49>> @@
  <<"seed-A", "skills", "user-46", 0>> :> <<68, 93, 135, 113, 124, 84, 104, 78>> @@
  <<"seed-A", "skills", "user-4", 0>> :> <<125, 60, 130, 143, 30, 236, 148, 52>> @@
  <<"seed-A", "skills", "user-2", 0>> :> <<147, 244, 168, 59, 170, 39, 136, 124>> @@
  <<"seed-A", "skills", "user-15", 0>> :> <<143, 110, 198, 234, 47, 200, 244, 215>> @@
  <<"seed-A", "initiative", "hero", 0>> :> <<214, 34, 50, 120, 155, 149, 226, 104>> @@
  <<"seed-A", "initiative", "wolf", 0>> :> <<239, 203, 216, 42, 245, 21, 161, 163>> @@
  <<"seed-A", "initiative", "bat", 0>> :> <<5, 55, 199, 78, 203, 183, 53, 172>> @@
  <<"seed-A", "initiative", "rat", 0>> :> <<136, 153, 26, 251, 184, 39, 2, 95>> @@
  <<"seed-A", "initiative", "orc", 0>> :> <<201, 63, 234, 249, 38, 172, 176, 230>> @@
  <<"seed-B", "initiative", "hero", 0>> :> <<158, 134, 210, 15, 245, 178, 142, 184>> @@
  <<"seed-B", "initiative", "wolf", 0>> :> <<224, 102, 93, 0, 163, 43, 49, 51>> @@
  <<"seed-B", "initiative", "bat", 0>> :> <<202, 86, 70, 50, 97, 235, 34, 92>> @@
  <<"seed-B", "initiative", "rat", 0>> :> <<254, 8, 35, 173, 22, 72, 142, 165>> @@
  <<"seed-B", "initiative", "orc", 0>> :> <<42, 215, 202, 55, 156, 254, 37, 2>> @@
  <<"seed-A", "loot", "drop-1", 0>> :> <<171, 132, 46, 245, 9, 159, 30, 175>> @@
  <<"seed-A", "loot", "drop-2", 0>> :> <<43, 148, 244, 166, 159, 13, 16, 139>> @@
  <<"seed-A", "loot", "drop-3", 0>> :> <<148, 105, 237, 155, 146, 192, 136, 177>> @@
  <<"seed-A", "loot", "drop-5", 0>> :> <<237, 118, 165, 37, 164, 63, 46, 48>> @@
  <<"seed-A", "loot", "drop-7", 0>> :> <<120, 148, 52, 74, 25, 172, 56, 24>> @@
  <<"seed-A", "loot", "drop-12", 0>> :> <<31, 135, 136, 202, 83, 180, 100, 238>> @@
  <<"seed-A", "loot", "drop-84", 0>> :> <<76, 64, 125, 220, 90, 76, 55, 221>> @@
  <<"seed-A", "loot", "Wolf_0", 0>> :> <<230, 59, 114, 57, 34, 139, 243, 151>> @@
  <<"seed-A", "loot", "Wolf_1", 0>> :> <<209, 172, 50, 179, 43, 30, 144, 127>> @@
  <<"seed-A", "loot", "Wolf_2", 0>> :> <<46, 198, 216, 0, 195, 201, 95, 13>> @@
  <<"seed-A", "loot", "Wolf_3", 0>> :> <<64, 160, 192, 14, 82, 192, 100, 122>> @@
  <<"seed-A", "loot", "Wolf_4", 0>> :> <<219, 173, 204, 33, 58, 125, 252, 170>> @@
  <<"seed-A", "loot", "Dragon_0", 0>> :> <<232, 158, 187, 111, 55, 251, 249, 132>> @@
  <<"seed-A", "loot", "Dragon_1", 0>> :> <<255, 105, 170, 70, 82, 80, 94, 136>> @@
  <<"seed-A", "loot", "Dragon_2", 0>> :> <<207, 245, 194, 247, 148, 61, 73, 92>> @@
  <<"seed-A", "loot", "Dragon_3", 0>> :> <<83, 226, 222, 170, 185, 212, 215, 82>> @@
  <<"seed-A", "loot", "Dragon_4", 0>> :> <<20, 238, 41, 169, 62, 132, 75, 129>> @@
  <<"seed-B", "loot", "Wolf_0", 0>> :> <<197, 78, 179, 170, 69, 127, 177, 235>> @@
  <<"seed-B", "loot", "Wolf_1", 0>> :> <<11, 224, 172, 84, 169, 69, 29, 240>> @@
  <<"seed-B", "loot", "Wolf_2", 0>> :> <<221, 194, 151, 180, 134, 120, 227, 113>> @@
  <<"seed-B", "loot", "Wolf_3", 0>> :> <<245, 103, 20, 108, 130, 235, 169, 85>> @@
  <<"seed-B", "loot", "Wolf_4", 0>> :> <<236, 62, 96, 79, 115, 135, 72, 77>> @@
  <<"seed-B", "loot", "Dragon_0", 0>> :> <<175, 164, 174, 135, 197, 3, 48, 221>> @@
  <<"seed-B", "loot", "Dragon_1", 0>> :> <<11, 43, 157, 156, 15, 213, 205, 61>> @@
  <<"seed-B", "loot", "Dragon_2", 0>> :> <<168, 165, 153, 87, 83, 89, 42, 12>> @@
  <<"seed-B", "loot", "Dragon_3", 0>> :> <<185, 196, 247, 251, 13, 211, 13, 115>> @@
  <<"seed-B", "loot", "Dragon_4", 0>> :> <<213, 64, 76, 60, 124, 47, 58, 110>> @@
  <<"seed-A", "item_use", "item-1", 0>> :> <<138, 95, 201, 37, 156, 112, 120, 2>> @@
  <<"seed-A", "item_use", "item-1", 1>> :> <<104, 80, 241, 234, 132, 23, 17, 229>> @@
  <<"seed-A", "item_use", "item-1", 2>> :> <<20, 162, 65, 173, 55, 58, 116, 47>> @@
  <<"seed-A", "item_use", "item-1", 3>> :> <<157, 216, 45, 100, 122, 11, 234, 224>> @@
  <<"seed-A", "item_use", "item-1", 4>> :> <<135, 201, 209, 216, 176, 110, 109, 115>> @@
  <<"seed-A", "item_use", "item-2", 0>> :> <<99, 137, 230, 213, 80, 251, 89, 174>> @@
  <<"seed-A", "item_use", "item-2", 1>> :> <<135, 68, 129, 21, 57, 176, 50, 57>> @@
  <<"seed-A", "item_use", "item-2", 2>> :> <<205, 85, 139, 148, 212, 117, 30, 139>> @@
  <<"seed-A", "item_use", "item-2", 3>> :> <<201, 45, 54, 19, 132, 134, 83, 65>> @@
  <<"seed-A", "item_use", "item-2", 4>> :> <<60, 79, 38, 82, 230, 180, 213, 118>> @@
  <<"seed-B", "item_use", "item-1", 0>> :> <<36, 89, 41, 86, 20, 253, 217, 209>> @@
  <<"seed-B", "item_use", "item-1", 1>> :> <<38, 28, 98, 117, 103, 198, 170, 235>> @@
  <<"seed-B", "item_use", "item-1", 2>> :> <<59, 46, 207, 22, 187, 84, 253, 56>> @@
  <<"seed-B", "item_use", "item-1", 3>> :> <<132, 199, 124, 116, 7, 133, 145, 217>> @@
  <<"seed-B", "item_use", "item-1", 4>> :> <<5, 217, 61, 41, 199, 15, 65, 186>> @@
  <<"seed-B", "item_use", "item-2", 0>> :> <<50, 208, 105, 168, 112, 87, 121, 68>> @@
  <<"seed-B", "item_use", "item-2", 1>> :> <<148, 47, 143, 77, 191, 223, 75, 105>> @@
  <<"seed-B", "item_use", "item-2", 2>> :> <<218, 222, 215, 236, 177, 122, 166, 168>> @@
  <<"seed-B", "item_use", "item-2", 3>> :> <<159, 206, 27, 18, 94, 6, 214, 136>> @@
  <<"seed-B", "item_use", "item-2", 4>> :> <<228, 150, 254, 245, 57, 27, 49, 157>> @@
  <<"seed-A", "items", "inst-4", 0>> :> <<255, 197, 180, 164, 123, 94, 158, 10>> @@
  <<"seed-A", "items", "inst-10", 0>> :> <<94, 115, 184, 22, 164, 238, 192, 154>> @@
  <<"seed-A", "items", "inst-39", 0>> :> <<81, 15, 247, 44, 178, 45, 113, 238>> @@
  <<"seed-A", "items", "inst-123", 0>> :> <<246, 179, 202, 154, 147, 51, 111, 233>> @@
  <<"seed-A", "combat", "hero", 0>> :> <<215, 58, 88, 44, 63, 182, 56, 130>> @@
  <<"seed-A", "combat", "hero", 1>> :> <<143, 193, 206, 35, 246, 252, 69, 16>> @@
  <<"seed-A", "combat", "hero", 2>> :> <<38, 89, 205, 114, 9, 217, 104, 129>> @@
  <<"seed-A", "combat", "hero", 3>> :> <<157, 41, 210, 143, 81, 36, 143, 121>> @@
  <<"seed-A", "combat", "hero", 4>> :> <<160, 29, 76, 82, 188, 107, 69, 127>> @@
  <<"seed-A", "combat", "wolf", 0>> :> <<184, 92, 62, 150, 123, 207, 50, 42>> @@
  <<"seed-A", "combat", "wolf", 1>> :> <<204, 40, 244, 205, 27, 39, 244, 221>> @@
  <<"seed-A", "combat", "wolf", 2>> :> <<121, 245, 217, 205, 122, 191, 192, 121>> @@
  <<"seed-A", "combat", "wolf", 3>> :> <<240, 6, 160, 158, 152, 205, 243, 153>> @@
  <<"seed-A", "combat", "wolf", 4>> :> <<187, 219, 71, 45, 85, 73, 11, 31>>

CreateNamespacedSeed(worldSeed, subsystem, entityId, turnNumber) ==
  <<worldSeed, subsystem, entityId, turnNumber>>

\* a faulty createSubsystemPRNG: the clock is mixed into the seed
CreateSubsystemPRNGClocked(worldSeed, subsystem, entityId, turnNumber) ==
  PrngNew(Trunc(BigAdd(Sha256Seed[CreateNamespacedSeed(worldSeed, subsystem, entityId,
                                                       turnNumber)],
                       BigFromInt(now)), 8))

CreateSubsystemPRNG(worldSeed, subsystem, entityId, turnNumber) ==
  PrngNew(Sha256Seed[CreateNamespacedSeed(worldSeed, subsystem, entityId, turnNumber)])

(***************************************************************************)
(* choice of class PRNG; class DeterministicPRNG and its weightedChoice.   *)
(* Array elements are strings, weights are integers.                       *)
(***************************************************************************)
\* choice(array): threw is the Error of the empty array
PrngChoice(g, array) ==
  IF Len(array) = 0 THEN [g |-> g, threw |-> TRUE, v |-> ""]
  ELSE The({ [g |-> r.g, threw |-> FALSE, v |-> array[r.v + 1]] :
             r \in {PrngRandInt(g, 0, Len(array) - 1)} })

\* The hex digits 1..16 (state) and 17..32 (inc) of
\*   sha256(`${seed}:${namespace}:${entityId}:${turn}`)
\* as 64-bit integers, for the seeds of the model
Sha256Halves ==
  <<"seed-A", "loot", "drop-1", 0>> :>
      [state |-> <<216, 21, 66, 56, 22, 192, 150, 19>>,
       inc |-> <<37, 228, 196, 68, 134, 80, 56, 33>>] @@
  <<"seed-A", "loot", "drop-7", 0>> :>
      [state |-> <<225, 82, 2, 67, 206, 217, 206, 92>>,
       inc |-> <<228, 68, 67, 133, 230, 251, 126, 173>>]

\* a | 1n
OrOne(a) == [a EXCEPT ![1] = IF @ % 2 = 0 THEN @ + 1 ELSE @]

\* new DeterministicPRNG(seed, namespace, entityId, turn); its next() and
\* random() compute what those of PRNG compute
DetNew(seed, namespace, entityId, turn) ==
  LET hash == Sha256Halves[<<seed, namespace, entityId, turn>>]
  IN  [state |-> hash.state, inc |-> OrOne(hash.inc)]

\* the loop of weightedChoice: random - weights[1] - ... - weights[i] <= 0
\* is random <= cumulative, the sum of the weights up to i
RECURSIVE WeightedLoop(_, _, _, _, _)
WeightedLoop(items, weights, i, cumulative, random) ==
  IF i > Len(items) THEN items[Len(items)]
  ELSE LET upTo == cumulative + weights[i]
       IN  IF upTo >= 0 /\ RatLeq(random, RatInt(upTo)) THEN items[i]
           ELSE WeightedLoop(items, weights, i + 1, upTo, random)

\* a faulty weightedChoice: the value is drawn before the arguments are checked
WeightedChoiceDrawFirst(g, items, weights) ==
  The({ IF Len(items) # Len(weights) \/ Len(items) = 0 \/ SeqSum(weights) <= 0
        THEN [g |-> r.g, threw |-> TRUE, v |-> ""]
        ELSE [g |-> r.g, threw |-> FALSE,
              v |-> WeightedLoop(items, weights, 1, 0,
                                 RatMul(r.v, RatInt(SeqSum(weights))))] :
        r \in {PrngRandom(g)} })

\* weightedChoice(items, weights) of DeterministicPRNG
WeightedChoice(g, items, weights) ==
  IF Len(items) # Len(weights) THEN [g |-> g, threw |-> TRUE, v |-> ""]
  ELSE IF Len(items) = 0 THEN [g |-> g, threw |-> TRUE, v |-> ""]
  ELSE IF SeqSum(weights) <= 0 THEN [g |-> g, threw |-> TRUE, v |-> ""]
  ELSE The({ [g |-> r.g, threw |-> FALSE,
              v |-> WeightedLoop(items, weights, 1, 0,
                                 RatMul(r.v, RatInt(SeqSum(weights))))] :
             r \in {PrngRandom(g)} })

(***************************************************************************)
(* Skill checks (items.ts).  Stats is a function from stat names to        *)
(* numbers; a stat that is absent is outside its domain.                   *)
(***************************************************************************)
\* stats[name] || dflt
StatOr(stats, name, dflt) ==
  IF name \in DOMAIN stats /\ stats[name] # 0 THEN stats[name] ELSE dflt

\* DIFFICULTY_DCS
DifficultyDCs == [easy |-> 10, normal |-> 15, hard |-> 20, extreme |-> 25]

\* SKILL_STAT_MAP
SkillStatMap ==
  [athletics |-> "strength", acrobatics |-> "dexterity", stealth |-> "dexterity",
   sleightOfHand |-> "dexterity", arcana |-> "intelligence", history |-> "intelligence",
   investigation |-> "intelligence", nature |-> "intelligence", religion |-> "intelligence",
   insight |-> "wisdom", medicine |-> "wisdom", perception |-> "wisdom",
   survival |-> "wisdom", animalHandling |-> "wisdom", deception |-> "charisma",
   intimidation |-> "charisma", performance |-> "charisma", persuasion |-> "charisma"]

\* `${skill}Bonus`, for the skills of the model
SkillBonusKey ==
  [athletics |-> "athleticsBonus", stealth |-> "stealthBonus", lockpicking |-> "lockpickingBonus"]

\* Math.ceil(a / b) for b > 0
CeilDiv(a, b) == -((-a) \div b)

CalculateSkillModifier(skill, stats, level, proficiencies) ==
  LET primaryStat == IF skill \in DOMAIN SkillStatMap THEN SkillStatMap[skill]
                     ELSE "intelligence"
      statValue == StatOr(stats, primaryStat, 10)
      statModifier == (statValue - 10) \div 2
      proficiencyBonus == IF skill \in proficiencies THEN CeilDiv(level, 4) + 1 ELSE 0
      skillBonus == StatOr(stats, SkillBonusKey[skill], 0)
  IN  statModifier + proficiencyBonus + skillBonus

\* a faulty degree of success: the natural 20 and the natural 1 are not
\* looked at
SkillDegreeByTotal(roll, finalResult, targetDC) ==
  IF finalResult >= targetDC
  THEN (IF finalResult >= targetDC + 10 THEN "critical_success" ELSE "success")
  ELSE (IF finalResult <= targetDC - 10 THEN "critical_failure" ELSE "failure")

\* a faulty degree of success: a total that equals the target is a failure
SkillDegreeStrict(roll, finalResult, targetDC) ==
  IF roll = 20 THEN "critical_success"
  ELSE IF roll = 1 THEN "critical_failure"
  ELSE IF finalResult > targetDC
       THEN (IF finalResult >= targetDC + 10 THEN "critical_success" ELSE "success")
       ELSE (IF finalResult <= targetDC - 10 THEN "critical_failure" ELSE "failure")

\* the degree of success of a roll
SkillDegree(roll, finalResult, targetDC) ==
  IF roll = 20 THEN "critical_success"
  ELSE IF roll = 1 THEN "critical_failure"
  ELSE IF finalResult >= targetDC
       THEN (IF finalResult >= targetDC + 10 THEN "critical_success" ELSE "success")
       ELSE (IF finalResult <= targetDC - 10 THEN "critical_failure" ELSE "failure")

\* performSkillCheck; check.modifiers is the sequence of its values.  The
\* description, a text of the other fields, is left out.
PerformSkillCheck(check, stats, level, proficiencies, worldSeed, entityId, turnNumber) ==
  LET rng == CreateSubsystemPRNG(worldSeed, "skills", entityId, turnNumber)
      roll == PrngRollDice(rng, <<"1", "d", "2", "0">>).v
      skillModifier == CalculateSkillModifier(check.skill, stats, level, proficiencies)
      situationalModifiers == SeqSum(check.modifiers)
      totalModifier == skillModifier + situationalModifiers
      targetDC == DifficultyDCs[check.difficulty]
  IN  The({ [success |-> r + totalModifier >= targetDC,
             roll |-> r,
             totalModifier |-> totalModifier,
             targetDC |-> targetDC,
             degree |-> SkillDegree(r, r + totalModifier, targetDC)] : r \in {roll} })

\* calculateDynamicDifficulty
CalculateDynamicDifficulty(baseLevel, playerLevel, baseDifficulty) ==
  LET levelDiff == baseLevel - playerLevel
  IN  IF levelDiff <= -5 THEN "easy"
      ELSE IF levelDiff <= -2 THEN (IF baseDifficulty = "hard" THEN "normal" ELSE "easy")
      ELSE IF levelDiff >= 5 THEN "extreme"
      ELSE IF levelDiff >= 2 THEN (IF baseDifficulty = "easy" THEN "normal" ELSE "hard")
      ELSE baseDifficulty

(***************************************************************************)
(* Combat (combat.ts).  Stats are integers, except resistance and          *)
(* vulnerability, which are held in hundredths.  An entity without status  *)
(* effects has the empty sequence.  The description of a turn, a text of   *)
(* its other fields, is left out; an optional field of a turn is a         *)
(* sequence of at most one value.                                          *)
(***************************************************************************)
\* one status effect added to the stats: (baseStats[stat] || 0) + value
ApplyEffect(baseStats, effects) ==
  [s \in DOMAIN baseStats \cup DOMAIN effects |->
     IF s \in DOMAIN effects THEN StatOr(baseStats, s, 0) + effects[s] ELSE baseStats[s]]

RECURSIVE ApplyEffects(_, _, _)
ApplyEffects(baseStats, statusEffects, i) ==
  IF i > Len(statusEffects) THEN baseStats
  ELSE ApplyEffects(IF statusEffects[i].duration > 0
                    THEN ApplyEffect(baseStats, statusEffects[i].effects)
                    ELSE baseStats,
                    statusEffects, i + 1)

CalculateEffectiveStats(entity) ==
  LET baseStats == ApplyEffects(entity.stats, entity.statusEffects, 1)
  IN  [s \in DOMAIN baseStats |-> Max(0, baseStats[s])]

\* Math.floor(baseAC + dexMod + armorBonus), dexMod = Math.floor(dex - 10) / 2
CalculateAC(entity) ==
  LET stats == CalculateEffectiveStats(entity)
  IN  (2 * 10 + (StatOr(stats, "dexterity", 10) - 10) + 2 * StatOr(stats, "armor", 0)) \div 2

\* Math.floor(levelBonus + statBonus + attackBonus), statBonus in halves
CalculateAttackBonus(entity, attackType) ==
  LET stats == CalculateEffectiveStats(entity)
      levelBonus == entity.level \div 4
      stat == CASE attackType = "melee" -> StatOr(stats, "strength", 10)
                [] attackType = "ranged" -> StatOr(stats, "dexterity", 10)
                [] attackType = "spell" -> StatOr(stats, "intelligence", 10)
  IN  (2 * levelBonus + (stat - 10) + 2 * StatOr(stats, "attackBonus", 0)) \div 2

CalculateDamage(attacker, target, attackType, rng) ==
  LET attackerStats == CalculateEffectiveStats(attacker)
      targetStats == CalculateEffectiveStats(target)
      baseDamage ==
        CASE attackType = "melee" ->
               (StatOr(attackerStats, "strength", 10) \div 2)
                 + StatOr(attackerStats, "weaponDamage", 4)
          [] attackType = "ranged" ->
               (StatOr(attackerStats, "dexterity", 10) \div 2)
                 + StatOr(attackerStats, "weaponDamage", 4)
          [] attackType = "spell" ->
               (StatOr(attackerStats, "intelligence", 10) \div 2)
                 + StatOr(attackerStats, "spellPower", 6)
      critChance == Hundredths(5 + StatOr(attackerStats, "luck", 0))
      damageReduction == StatOr(targetStats, "damageReduction", 0)
      resistance == StatOr(targetStats, "resistance", 0)
      vulnerability == StatOr(targetStats, "vulnerability", 0)
      Final(variance, crit) ==
        LET rolled == RatFloor(RatMul(RatInt(baseDamage), variance.v))
            critical == RatLt(crit.v, critChance)
            doubled == IF critical THEN 2 * rolled ELSE rolled
            reduced == Max(1, doubled - damageReduction)
            resisted == (reduced * (100 - resistance + vulnerability)) \div 100
        IN  [rng |-> crit.g, damage |-> Max(1, resisted), critical |-> critical]
  IN  The({ The({ Final(variance, crit) : crit \in {PrngRandom(variance.g)} }) :
            variance \in {PrngRandFloat(rng, Tenths(8), Tenths(12))} })

\* a faulty update: an effect whose duration has reached 0 is kept
TickEffectsKeepExpired(statusEffects) ==
  LET mapped == [i \in 1..Len(statusEffects) |->
                   [statusEffects[i] EXCEPT !.duration = @ - 1]]
  IN  SelectSeq(mapped, LAMBDA effect : effect.duration >= 0)

\* effect => ({...effect, duration: effect.duration - 1}), then duration > 0
TickEffects(statusEffects) ==
  LET mapped == [i \in 1..Len(statusEffects) |->
                   [statusEffects[i] EXCEPT !.duration = @ - 1]]
  IN  SelectSeq(mapped, LAMBDA effect : effect.duration > 0)

DefensiveStance ==
  [id |-> "defensive_stance", duration |-> 1,
   effects |-> [armor |-> 2, damageReduction |-> 2]]

\* a faulty attack case: the damage is subtracted without the floor at 0
ResolveAttackUnfloored(actor, action, entities, rng) ==
  IF action.targetId \notin DOMAIN entities
  THEN [entities |-> entities, roll |-> <<>>, damage |-> <<>>, effects |-> <<>>,
        success |-> FALSE]
  ELSE LET target == entities[action.targetId]
           attackBonus == CalculateAttackBonus(actor, "melee")
           targetAC == CalculateAC(target)
           Hit(attackRoll, d) ==
             [entities |-> [entities EXCEPT ![action.targetId].health.current = @ - d.damage],
              roll |-> <<attackRoll.v + attackBonus>>,
              damage |-> <<d.damage>>,
              effects |-> IF d.critical THEN <<"critical">> ELSE <<>>,
              success |-> TRUE]
       IN  The({ IF attackRoll.v + attackBonus >= targetAC
                 THEN The({ Hit(attackRoll, d) :
                            d \in {CalculateDamage(actor, target, "melee", attackRoll.g)} })
                 ELSE [entities |-> entities, roll |-> <<attackRoll.v + attackBonus>>,
                       damage |-> <<>>, effects |-> <<>>, success |-> FALSE] :
                 attackRoll \in {PrngRollDice(rng, <<"1", "d", "2", "0">>)} })

\* the attack case of resolveCombatTurn
ResolveAttack(actor, action, entities, rng) ==
  IF action.targetId \notin DOMAIN entities
  THEN [entities |-> entities, roll |-> <<>>, damage |-> <<>>, effects |-> <<>>,
        success |-> FALSE]
  ELSE LET target == entities[action.targetId]
           attackBonus == CalculateAttackBonus(actor, "melee")
           targetAC == CalculateAC(target)
           Hit(attackRoll, d) ==
             [entities |-> [entities EXCEPT ![action.targetId].health.current =
                                               Max(0, @ - d.damage)],
              roll |-> <<attackRoll.v + attackBonus>>,
              damage |-> <<d.damage>>,
              effects |-> IF d.critical THEN <<"critical">> ELSE <<>>,
              success |-> TRUE]
       IN  The({ IF attackRoll.v + attackBonus >= targetAC
                 THEN The({ Hit(attackRoll, d) :
                            d \in {CalculateDamage(actor, target, "melee", attackRoll.g)} })
                 ELSE [entities |-> entities, roll |-> <<attackRoll.v + attackBonus>>,
                       damage |-> <<>>, effects |-> <<>>, success |-> FALSE] :
                 attackRoll \in {PrngRollDice(rng, <<"1", "d", "2", "0">>)} })

\* the flee case of resolveCombatTurn
ResolveFlee(actor, entities, rng) ==
  LET stats == CalculateEffectiveStats(actor)
      fleeChance == 50 + (StatOr(stats, "dexterity", 10) - 10) * 5
  IN  [entities |-> entities, roll |-> <<>>, damage |-> <<>>, effects |-> <<>>,
       success |-> RatLt(PrngRandom(rng).v, Hundredths(Max(10, Min(90, fleeChance))))]

\* resolveCombatTurn: the turn it returns and the entities afterwards
ResolveCombatTurn(turn, action, entities, worldSeed) ==
  IF action.actorId \notin DOMAIN entities
  THEN [threw |-> TRUE, entities |-> entities, combatTurn |-> <<>>]
  ELSE LET actor == entities[action.actorId]
           rng == CreateSubsystemPRNG(worldSeed, "combat", action.actorId, turn)
           Done(r) ==
             [threw |-> FALSE,
              entities |-> [r.entities EXCEPT ![action.actorId].statusEffects =
                                                 TickEffects(@)],
              combatTurn |-> <<[turn |-> turn, actorId |-> action.actorId,
                                action |-> action, roll |-> r.roll, damage |-> r.damage,
                                effects |-> r.effects, success |-> r.success]>>]
       IN  The({ Done(r) : r \in {
             CASE action.type = "attack" -> ResolveAttack(actor, action, entities, rng)
               [] action.type = "defend" ->
                    [entities |-> [entities EXCEPT ![action.actorId].statusEffects =
                                                     Append(@, DefensiveStance)],
                     roll |-> <<>>, damage |-> <<>>, effects |-> <<>>, success |-> TRUE]
               [] action.type = "flee" -> ResolveFlee(actor, entities, rng)
               [] OTHER ->
                    [entities |-> entities, roll |-> <<>>, damage |-> <<>>,
                     effects |-> <<>>, success |-> FALSE] } })

\* the keys of an entity map in the order of Array.from(entities.values()):
\* the order in which the caller inserted them
InsertionOrder == <<"hero", "wolf", "bat">>

\* a faulty checkCombatEnd: the combat ends only when no entity is alive
CheckCombatEndStrict(entities) ==
  LET ids == SelectSeq(InsertionOrder, LAMBDA id : id \in DOMAIN entities)
      alive == SelectSeq(ids, LAMBDA id : entities[id].health.current > 0)
      dead == SelectSeq(ids, LAMBDA id : entities[id].health.current = 0)
  IN  IF Len(alive) < 1
      THEN [ended |-> TRUE, outcome |-> IF Len(alive) = 1 THEN "victory" ELSE "defeat",
            survivors |-> alive, casualties |-> dead]
      ELSE [ended |-> FALSE, outcome |-> "null", survivors |-> <<>>, casualties |-> <<>>]

\* checkCombatEnd; the outcome null is the string "null"
CheckCombatEnd(entities) ==
  LET ids == SelectSeq(InsertionOrder, LAMBDA id : id \in DOMAIN entities)
      alive == SelectSeq(ids, LAMBDA id : entities[id].health.current > 0)
      dead == SelectSeq(ids, LAMBDA id : entities[id].health.current = 0)
  IN  IF Len(alive) <= 1
      THEN [ended |-> TRUE, outcome |-> IF Len(alive) = 1 THEN "victory" ELSE "defeat",
            survivors |-> alive, casualties |-> dead]
      ELSE [ended |-> FALSE, outcome |-> "null", survivors |-> <<>>, casualties |-> <<>>]

\* initiatives.sort((a, b) => b.initiative - a.initiative): a stable sort,
\* by insertion
RECURSIVE SortByInitiative(_)
SortByInitiative(initiatives) ==
  IF Len(initiatives) = 0 THEN <<>>
  ELSE LET sorted == SortByInitiative(SubSeq(initiatives, 1, Len(initiatives) - 1))
           x == initiatives[Len(initiatives)]
           k == Cardinality({i \in 1..Len(sorted) : sorted[i].initiative >= x.initiative})
       IN  SubSeq(sorted, 1, k) \o <<x>> \o SubSeq(sorted, k + 1, Len(sorted))

\* rollInitiative; an initiative is held doubled: roll + Math.floor(dex - 10) / 2
RollInitiative(entities, worldSeed) ==
  LET initiatives ==
        [i \in 1..Len(entities) |->
           LET rng == CreateSubsystemPRNG(worldSeed, "initiative", entities[i].id, 0)
               stats == CalculateEffectiveStats(entities[i])
           IN  [id |-> entities[i].id,
                initiative |-> 2 * PrngRollDice(rng, <<"1", "d", "2", "0">>).v
                                 + (StatOr(stats, "dexterity", 10) - 10)]]
      sorted == SortByInitiative(initiatives)
  IN  [i \in 1..Len(sorted) |-> sorted[i].id]

(***************************************************************************)
(* Experience and leveling                                                 *)
(***************************************************************************)
MaxLevel == 100

\* k^n for an integer 0 <= k < 2^22
RECURSIVE BigPow(_, _)
BigPow(k, n) == IF n = 0 THEN <<1>> ELSE BigMulSmall(BigPow(k, n - 1), k)

\* the largest k in lo..hi with k^5 <= n
RECURSIVE FifthRootSearch(_, _, _)
FifthRootSearch(n, lo, hi) ==
  IF lo = hi THEN lo
  ELSE The({ IF BigLeq(BigPow(mid, 5), n)
             THEN FifthRootSearch(n, mid, hi)
             ELSE FifthRootSearch(n, lo, mid - 1) : mid \in {(lo + hi + 1) \div 2} })

\* Math.floor(Math.pow(m, 2.2) * 100) for an integer 0 <= m <= 118: with
\* 2.2 = 11/5 it is the largest k with k^5 <= 10^10 * m^11.  It lies between
\* 100 m^2 and 300 m^2, as m^(1/5) <= 3.
FloorPow22Times100(m) ==
  The({ FifthRootSearch(n, 100 * m * m, 300 * m * m) :
        n \in {BigMul(BigPow(10, 10), BigPow(m, 11))} })

\* the body of calculateXPForLevel
XPFormula(level) ==
  IF level <= 1 THEN 0
  ELSE FloorPow22Times100(level - 1) + (level - 1) * 50

\* the levels of the model, each evaluated once
XPTable == [level \in 1..(MaxLevel + 2) |-> XPFormula(level)]

\* a faulty calculateXPForLevel: level 2 costs nothing either
CalculateXPForLevelFromTwo(level) ==
  IF level <= 2 THEN 0
  ELSE IF level \in DOMAIN XPTable THEN XPTable[level] ELSE XPFormula(level)

CalculateXPForLevel(level) ==
  IF level \in DOMAIN XPTable THEN XPTable[level] ELSE XPFormula(level)

\* for (i = 2; i <= level; i++) totalXP += calculateXPForLevel(i)
RECURSIVE CalculateTotalXPForLevel(_)
CalculateTotalXPForLevel(level) ==
  IF level < 2 THEN 0
  ELSE CalculateTotalXPForLevel(level - 1) + CalculateXPForLevel(level)

\* a faulty loop of getLevelFromXP: it breaks when the next level is reached
\* exactly
RECURSIVE GetLevelLoopStrict(_, _, _)
GetLevelLoopStrict(level, xpAccumulated, totalXP) ==
  IF xpAccumulated <= totalXP
  THEN LET xpForNextLevel == CalculateXPForLevel(level + 1)
       IN  IF xpAccumulated + xpForNextLevel >= totalXP
           THEN level
           ELSE GetLevelLoopStrict(level + 1, xpAccumulated + xpForNextLevel, totalXP)
  ELSE level

\* the while loop of getLevelFromXP, from its loop test
RECURSIVE GetLevelLoop(_, _, _)
GetLevelLoop(level, xpAccumulated, totalXP) ==
  IF xpAccumulated <= totalXP
  THEN LET xpForNextLevel == CalculateXPForLevel(level + 1)
       IN  IF xpAccumulated + xpForNextLevel > totalXP
           THEN level
           ELSE GetLevelLoop(level + 1, xpAccumulated + xpForNextLevel, totalXP)
  ELSE level

GetLevelFromXP(totalXP) == Max(1, GetLevelLoop(1, 0, totalXP))

\* const bonusLevels
BonusLevels == <<5, 10, 15, 20, 25, 30, 40, 50>>

\* the loop of getLevelInfo over bonusLevels, from entry i
RECURSIVE BonusLoop(_, _, _)
BonusLoop(level, i, statPoints) ==
  IF i > Len(BonusLevels) THEN statPoints
  ELSE BonusLoop(level, i + 1,
                 IF level >= BonusLevels[i] THEN statPoints + (BonusLevels[i] \div 5)
                 ELSE statPoints)

GetLevelInfo(totalXP) ==
  The({ [level |-> level,
         currentXP |-> totalXP - CalculateTotalXPForLevel(level),
         xpForNext |-> CalculateXPForLevel(level + 1),
         xpTotal |-> totalXP,
         statPoints |-> BonusLoop(level, 1, level - 1)] :
        level \in {GetLevelFromXP(totalXP)} })

(***************************************************************************)
(* Loot (loot.ts).  Luck, magic find and weights are integers; the ranges  *)
(* of the affix templates are in hundredths.                               *)
(***************************************************************************)
RarityOrder == <<"common", "rare", "epic", "legendary">>

\* rarityOrder.indexOf(rarity), from 1
RarityIndex(rarity) == CHOOSE i \in 1..Len(RarityOrder) : RarityOrder[i] = rarity

\* upgradeChances, in hundredths: common->rare, rare->epic, epic->legendary
UpgradeChances == <<30, 10, 2>>

\* a faulty upgradeRarity: the next tier is given whatever its roll
UpgradeRarityUnrolled(currentRarity, rng) ==
  LET currentIndex == RarityIndex(currentRarity)
  IN  IF currentIndex < Len(RarityOrder)
      THEN The({ [rng |-> r.g, rarity |-> RarityOrder[currentIndex + 1],
                  tier |-> IF RatLt(r.v, Hundredths(UpgradeChances[currentIndex]))
                           THEN "passed" ELSE "failed"] :
                 r \in {PrngRandom(rng)} })
      ELSE [rng |-> rng, rarity |-> currentRarity, tier |-> "none"]

\* upgradeRarity: the loop's first iteration returns or breaks.  tier says
\* what the roll for the next tier did: "none" (no roll), "failed", "passed".
UpgradeRarity(currentRarity, rng) ==
  LET currentIndex == RarityIndex(currentRarity)
  IN  IF currentIndex < Len(RarityOrder)
      THEN The({ IF RatLt(r.v, Hundredths(UpgradeChances[currentIndex]))
                 THEN [rng |-> r.g, rarity |-> RarityOrder[currentIndex + 1], tier |-> "passed"]
                 ELSE [rng |-> r.g, rarity |-> currentRarity, tier |-> "failed"] :
                 r \in {PrngRandom(rng)} })
      ELSE [rng |-> rng, rarity |-> currentRarity, tier |-> "none"]

AffixTemplate(id, stat, min, max) == [id |-> id, stats |-> <<[stat |-> stat, min |-> min, max |-> max]>>]

BaseAffixes ==
  << AffixTemplate("strength_boost", "strength", 100, 500),
     AffixTemplate("dexterity_boost", "dexterity", 100, 500),
     AffixTemplate("intelligence_boost", "intelligence", 100, 500),
     AffixTemplate("vitality_boost", "vitality", 100, 500),
     AffixTemplate("luck_boost", "luck", 100, 300) >>

SlotAffixes ==
  [weapon |-> << AffixTemplate("damage_boost", "weaponDamage", 100, 800),
                 AffixTemplate("critical_boost", "criticalChance", 100, 500),
                 AffixTemplate("speed_boost", "attackSpeed", 500, 1500) >>,
   head |-> << AffixTemplate("mana_boost", "mana", 1000, 3000),
               AffixTemplate("wisdom_boost", "wisdom", 100, 400) >>,
   chest |-> << AffixTemplate("health_boost", "health", 2000, 6000),
                AffixTemplate("armor_boost", "armor", 200, 800) >>,
   ring |-> << AffixTemplate("resist_boost", "resistance", 5, 15),
               AffixTemplate("regen_boost", "healthRegen", 100, 500) >>]

GetAffixPool(slot, tags) ==
  IF slot \in DOMAIN SlotAffixes THEN BaseAffixes \o SlotAffixes[slot] ELSE BaseAffixes

\* the loop of generateAffix over the template's stats, from entry i:
\* levelScale = 1 + (sourceLevel - 1) * 0.1, the bounds floored
RECURSIVE AffixStatsLoop(_, _, _, _)
AffixStatsLoop(tstats, i, context, rng) ==
  IF i > Len(tstats) THEN [rng |-> rng, stats |-> <<>>]
  ELSE LET scaledMin == (tstats[i].min * (9 + context.sourceLevel)) \div 1000
           scaledMax == (tstats[i].max * (9 + context.sourceLevel)) \div 1000
       IN  The({ The({ [rng |-> rest.rng,
                        stats |-> <<[stat |-> tstats[i].stat, value |-> r.v]>> \o rest.stats] :
                       rest \in {AffixStatsLoop(tstats, i + 1, context, r.g)} }) :
                 r \in {PrngRandInt(rng, scaledMin, scaledMax)} })

GenerateAffix(template, context, rng) ==
  The({ [rng |-> l.rng, affix |-> [id |-> template.id, stats |-> l.stats]] :
        l \in {AffixStatsLoop(template.stats, 1, context, rng)} })

RemoveAt(seq, i) == SubSeq(seq, 1, i - 1) \o SubSeq(seq, i + 1, Len(seq))

\* a faulty loop of generateAffixes: the chosen template stays in the pool
RECURSIVE AffixLoopNoSplice(_, _, _, _, _)
AffixLoopNoSplice(i, maxAffixes, availableAffixes, context, rng) ==
  IF ~(i < maxAffixes /\ Len(availableAffixes) > 0) THEN [rng |-> rng, affixes |-> <<>>]
  ELSE The({ The({ The({ [rng |-> rest.rng, affixes |-> <<a.affix>> \o rest.affixes] :
                         rest \in {AffixLoopNoSplice(i + 1, maxAffixes, availableAffixes,
                                                     context, a.rng)} }) :
                   a \in {GenerateAffix(availableAffixes[c.v + 1], context, c.g)} }) :
             c \in {PrngRandInt(rng, 0, Len(availableAffixes) - 1)} })

\* the loop of generateAffixes: choice, splice, generateAffix
RECURSIVE AffixLoop(_, _, _, _, _)
AffixLoop(i, maxAffixes, availableAffixes, context, rng) ==
  IF ~(i < maxAffixes /\ Len(availableAffixes) > 0) THEN [rng |-> rng, affixes |-> <<>>]
  ELSE The({ The({ The({ [rng |-> rest.rng, affixes |-> <<a.affix>> \o rest.affixes] :
                         rest \in {AffixLoop(i + 1, maxAffixes,
                                             RemoveAt(availableAffixes, c.v + 1),
                                             context, a.rng)} }) :
                   a \in {GenerateAffix(availableAffixes[c.v + 1], context, c.g)} }) :
             c \in {PrngRandInt(rng, 0, Len(availableAffixes) - 1)} })

GenerateAffixes(archetype, rarity, context, rng) ==
  LET count == CASE rarity = "rare" -> PrngRandInt(rng, 1, 2)
                 [] rarity = "epic" -> PrngRandInt(rng, 2, 3)
                 [] rarity = "legendary" -> PrngRandInt(rng, 3, 4)
                 [] OTHER -> [g |-> rng, v |-> 0]
  IN  The({ AffixLoop(0, m.v, GetAffixPool(archetype.slot, archetype.tags), context, m.g) :
            m \in {count} })

\* Math.max(0.5, Math.min(1.5, quality))
ClampQuality(quality) ==
  IF RatLt(quality, Tenths(5)) THEN Tenths(5)
  ELSE IF RatLt(Tenths(15), quality) THEN Tenths(15)
  ELSE quality

\* generateItemDrop.  gate and tier record the two upgrade rolls: whether
\* random() < upgradeChance, and what upgradeRarity's roll did.
GenerateItemDrop(archetype, context, rng) ==
  LET levelDiff == Max(0, context.sourceLevel - context.playerLevel)
      \* 0.05 + luckBonus + levelDiff * 0.02 + magicFindBonus
      upgradeChance == Hundredths(5 + context.playerLuck + 2 * levelDiff + context.magicFind)
      Upgraded(q, gate) ==
        IF RatLt(gate.v, upgradeChance)
        THEN The({ [rng |-> u.rng, rarity |-> u.rarity, gate |-> TRUE, tier |-> u.tier] :
                   u \in {UpgradeRarity(archetype.rarity, gate.g)} })
        ELSE [rng |-> gate.g, rarity |-> archetype.rarity, gate |-> FALSE, tier |-> "none"]
      Quality(q, u) ==
        CASE u.rarity = "rare" -> PrngRandFloat(u.rng, Tenths(9), Tenths(11))
          [] u.rarity = "epic" -> PrngRandFloat(u.rng, Tenths(10), Tenths(12))
          [] u.rarity = "legendary" -> PrngRandFloat(u.rng, Tenths(11), Tenths(13))
          [] OTHER -> [g |-> u.rng, v |-> q.v]
      Affixes(u, q2) ==
        IF u.rarity # "common" THEN GenerateAffixes(archetype, u.rarity, context, q2.g)
        ELSE [rng |-> q2.g, affixes |-> <<>>]
  IN  The({ The({ The({ The({ [rng |-> a.rng,
                               drop |-> [archetypeSlug |-> archetype.slug,
                                         quantity |-> 1,
                                         rarity |-> u.rarity,
                                         quality |-> ClampQuality(q2.v),
                                         affixes |-> a.affixes,
                                         gate |-> u.gate,
                                         tier |-> u.tier]] :
                              a \in {Affixes(u, q2)} }) :
                        q2 \in {Quality(q, u)} }) :
                  u \in {Upgraded(q, PrngRandom(q.g))} }) :
            q \in {PrngRandFloat(rng, Tenths(8), Tenths(10))} })

\* the loop of generateLoot over lootTable.entries, from entry i
RECURSIVE LootLoop(_, _, _, _, _)
LootLoop(entries, i, context, itemArchetypes, rng) ==
  IF i > Len(entries) THEN <<>>
  ELSE LET entry == entries[i]
           \* baseWeight * (1 + context.magicFind * 0.01)
           adjustedWeight == Rat(BigFromInt(entry.weight * (100 + context.magicFind)), <<100>>)
           Dropped(r) ==
             The({ The({ <<[d.drop EXCEPT !.quantity = quantity.v]>>
                         \o LootLoop(entries, i + 1, context, itemArchetypes, d.rng) :
                         d \in {GenerateItemDrop(itemArchetypes[entry.archetypeSlug],
                                                 context, quantity.g)} }) :
                   quantity \in {PrngRandInt(r.g, entry.minQuantity, entry.maxQuantity)} })
       IN  The({ IF RatLt(RatMul(r.v, RatInt(100)), adjustedWeight)
                 THEN (IF entry.archetypeSlug \notin DOMAIN itemArchetypes
                       THEN LootLoop(entries, i + 1, context, itemArchetypes, r.g)
                       ELSE Dropped(r))
                 ELSE LootLoop(entries, i + 1, context, itemArchetypes, r.g) :
                 r \in {PrngRandom(rng)} })

GenerateLoot(lootTable, context, itemArchetypes) ==
  LootLoop(lootTable.entries, 1, context, itemArchetypes,
           CreateSubsystemPRNG(context.worldSeed, "loot", context.dropId, 0))

\* `${enemyName}_${Date.now()}`, for the enemy names and clock values of the
\* model
EnemyDropIds ==
  [Wolf |-> <<"Wolf_0", "Wolf_1", "Wolf_2", "Wolf_3", "Wolf_4">>,
   Dragon |-> <<"Dragon_0", "Dragon_1", "Dragon_2", "Dragon_3", "Dragon_4">>]

\* enemyName.toLowerCase()
LowerCaseName == [Wolf |-> "wolf", Dragon |-> "dragon"]

\* key.includes(part), for the table keys of the model
KeyIncludes(key, part) ==
  <<key, part>> \in {<<"generic_drops", "generic">>, <<"wolf_drops", "wolf">>,
                     <<"boss_drops", "boss">>}

\* the loop of generateEnemyLoot over the applicable tables
RECURSIVE EnemyLootLoop(_, _, _, _)
EnemyLootLoop(applicableTables, i, context, itemArchetypes) ==
  IF i > Len(applicableTables) THEN <<>>
  ELSE GenerateLoot(applicableTables[i], context, itemArchetypes)
         \o EnemyLootLoop(applicableTables, i + 1, context, itemArchetypes)

\* generateEnemyLoot, called when the clock reads dateNow; lootTables is the
\* sequence of the map's values
GenerateEnemyLoot(enemyLevel, enemyName, playerLevel, playerLuck, magicFind, worldSeed, lootTables, itemArchetypes, dateNow) ==
  LET context == [sourceLevel |-> enemyLevel, sourceName |-> enemyName,
                  playerLevel |-> playerLevel, playerLuck |-> playerLuck,
                  magicFind |-> magicFind, worldSeed |-> worldSeed,
                  dropId |-> EnemyDropIds[enemyName][dateNow + 1]]
      applicableTables ==
        SelectSeq(lootTables,
                  LAMBDA table : \/ KeyIncludes(table.key, "generic")
                                 \/ KeyIncludes(table.key, LowerCaseName[enemyName]))
  IN  EnemyLootLoop(applicableTables, 1, context, itemArchetypes)

(***************************************************************************)
(* Items (items.ts).  archetype.stats is the sequence of its entries, with *)
(* base values that are non-negative integers.  A message is the sequence  *)
(* of its sentences, each named by a word.                                 *)
(***************************************************************************)
\* stat.includes('Percent') || stat.includes('Rate') || stat === 'resistance',
\* for the stat names of the model
PercentStats == {"critPercent", "dropRate", "resistance"}

\* a faulty loop of generateRolledStats: the variance is drawn in [0.8, 1.2]
RECURSIVE RolledStatsLoopWide(_, _, _, _)
RolledStatsLoopWide(entries, i, quality, rng) ==
  IF i > Len(entries) THEN [rng |-> rng, stats |-> <<>>]
  ELSE IF entries[i].baseValue = 0 THEN RolledStatsLoopWide(entries, i + 1, quality, rng)
  ELSE LET Rolled(variance) ==
             LET modifiedValue == RatMul(RatMul(RatInt(entries[i].baseValue), quality),
                                         variance.v)
             IN  [stat |-> entries[i].stat,
                  baseValue |-> entries[i].baseValue,
                  quality |-> quality,
                  modifiedValue |-> modifiedValue,
                  value |-> IF entries[i].stat \in PercentStats
                            THEN Hundredths(RatFloor(RatAdd(RatMul(modifiedValue, RatInt(100)),
                                                            Tenths(5))))
                            ELSE RatInt(RatFloor(modifiedValue))]
       IN  The({ The({ [rng |-> rest.rng, stats |-> <<Rolled(variance)>> \o rest.stats] :
                       rest \in {RolledStatsLoopWide(entries, i + 1, quality, variance.g)} }) :
                 variance \in {PrngRandFloat(rng, Tenths(8), Tenths(12))} })

\* the loop of generateRolledStats over the entries, from entry i.  An entry
\* of the result keeps the value before rounding next to the stored one.
RECURSIVE RolledStatsLoop(_, _, _, _)
RolledStatsLoop(entries, i, quality, rng) ==
  IF i > Len(entries) THEN [rng |-> rng, stats |-> <<>>]
  ELSE IF entries[i].baseValue = 0 THEN RolledStatsLoop(entries, i + 1, quality, rng)
  ELSE LET Rolled(variance) ==
             LET modifiedValue == RatMul(RatMul(RatInt(entries[i].baseValue), quality),
                                         variance.v)
             IN  [stat |-> entries[i].stat,
                  baseValue |-> entries[i].baseValue,
                  quality |-> quality,
                  modifiedValue |-> modifiedValue,
                  value |-> IF entries[i].stat \in PercentStats
                            THEN Hundredths(RatFloor(RatAdd(RatMul(modifiedValue, RatInt(100)),
                                                            Tenths(5))))
                            ELSE RatInt(RatFloor(modifiedValue))]
       IN  The({ The({ [rng |-> rest.rng, stats |-> <<Rolled(variance)>> \o rest.stats] :
                       rest \in {RolledStatsLoop(entries, i + 1, quality, variance.g)} }) :
                 variance \in {PrngRandFloat(rng, Tenths(9), Tenths(11))} })

GenerateRolledStats(archetype, quality, rng) ==
  RolledStatsLoop(archetype.stats, 1, quality, rng)

\* generateItemInstance; context.quality is a sequence of at most one value
GenerateItemInstance(archetype, context) ==
  LET rng == CreateSubsystemPRNG(context.worldSeed, "items", context.instanceId, 0)
      quality == IF Len(context.quality) > 0 THEN [g |-> rng, v |-> context.quality[1]]
                 ELSE PrngRandFloat(rng, Tenths(8), Tenths(12))
      Durability(q, rolled) ==
        IF archetype.slot # "consumable" /\ archetype.slot # "trinket"
        THEN The({ <<[current |-> maxDurability, max |-> maxDurability]>> :
                   maxDurability \in
                     {RatFloor(RatMul(RatMul(RatInt(100),
                                             PrngRandFloat(rolled.rng, Tenths(9), Tenths(11)).v),
                                      q.v))} })
        ELSE <<>>
  IN  The({ The({ [archetypeSlug |-> archetype.slug,
                   mintWorldId |-> context.mintWorldId,
                   rollData |-> [stats |-> rolled.stats,
                                 durability |-> Durability(q, rolled),
                                 quality |-> ClampQuality(q.v)]] :
                  rolled \in {GenerateRolledStats(archetype, q.v, q.g)} }) :
            q \in {quality} })

\* repairItem: the instance afterwards and what is returned.  repairAmount is
\* <<>> when the argument is left out; `repairAmount ? ... : maxDurability`
\* takes an amount of 0 as left out
RepairItem(instance, repairAmount) ==
  IF Len(instance.rollData.durability) = 0
  THEN [instance |-> instance, result |-> [success |-> FALSE, cost |-> 0, newDurability |-> 0]]
  ELSE LET maxDurability == instance.rollData.durability[1].max
           currentDurability == instance.rollData.durability[1].current
           targetDurability ==
             IF Len(repairAmount) > 0 /\ repairAmount[1] # 0
             THEN Min(maxDurability, currentDurability + repairAmount[1])
             ELSE maxDurability
           actualRepair == targetDurability - currentDurability
       IN  IF actualRepair <= 0
           THEN [instance |-> instance,
                 result |-> [success |-> FALSE, cost |-> 0, newDurability |-> currentDurability]]
           ELSE [instance |-> [instance EXCEPT !.rollData.durability[1].current = targetDurability],
                 result |-> [success |-> TRUE, cost |-> actualRepair * 10,
                             newDurability |-> targetDurability]]

\* degradeItem: the instance afterwards and what is returned.  degradeAmount
\* is <<>> when the argument is left out, and the default is 1
DegradeItem(instance, degradeAmount) ==
  IF Len(instance.rollData.durability) = 0
  THEN [instance |-> instance,
        result |-> [degraded |-> FALSE, newDurability |-> 0, broken |-> FALSE]]
  ELSE LET amount == IF Len(degradeAmount) > 0 THEN degradeAmount[1] ELSE 1
           oldDurability == instance.rollData.durability[1].current
           newDurability == Max(0, oldDurability - amount)
       IN  [instance |-> [instance EXCEPT !.rollData.durability[1].current = newDurability],
            result |-> [degraded |-> newDurability < oldDurability,
                        newDurability |-> newDurability,
                        broken |-> newDurability = 0]]

\* the buff effects of useItem, from entry i of archetype.stats
RECURSIVE BuffEffects(_, _)
BuffEffects(entries, i) ==
  IF i > Len(entries) THEN <<>>
  ELSE (IF entries[i].baseValue > 0 /\ entries[i].stat \notin {"healing", "manaRestore"}
        THEN <<[type |-> "buff", value |-> entries[i].baseValue, duration |-> <<300>>]>>
        ELSE <<>>) \o BuffEffects(entries, i + 1)

\* archetype.stats[name] || dflt
ArchetypeStatOr(archetype, name, dflt) ==
  LET found == SelectSeq(archetype.stats, LAMBDA e : e.stat = name /\ e.baseValue # 0)
  IN  IF Len(found) > 0 THEN found[1].baseValue ELSE dflt

\* useItem, called when the clock reads dateNow: its result and the
\* generator it derives
UseItem(archetype, instance, context, dateNow) ==
  LET rng == CreateSubsystemPRNG(context.worldSeed, "item_use", instance.id, dateNow)
      consumable == archetype.slot = "consumable"
      healing == consumable /\ "healing" \in archetype.tags
      mana == consumable /\ "mana" \in archetype.tags
      buff == consumable /\ "buff" \in archetype.tags
      tool == "tool" \in archetype.tags
      consumed ==
        (IF healing THEN <<"refreshed">> ELSE <<>>)
          \o (IF mana THEN <<"replenished">> ELSE <<>>)
          \o (IF buff THEN <<"empowered">> ELSE <<>>)
      message == IF tool THEN <<"use">> ELSE consumed
      effects ==
        (IF healing
         THEN <<[type |-> "heal", value |-> ArchetypeStatOr(archetype, "healing", 50),
                 duration |-> <<>>]>>
         ELSE <<>>)
          \o (IF mana
              THEN <<[type |-> "mana", value |-> ArchetypeStatOr(archetype, "manaRestore", 30),
                      duration |-> <<>>]>>
              ELSE <<>>)
          \o (IF buff THEN BuffEffects(archetype.stats, 1) ELSE <<>>)
          \o (IF tool /\ "lockpick" \in archetype.tags
              THEN <<[type |-> "skill_bonus", value |-> 5, duration |-> <<>>]>>
              ELSE <<>>)
          \o (IF archetype.cooldown > 0
              THEN <<[type |-> "cooldown", value |-> archetype.cooldown, duration |-> <<>>]>>
              ELSE <<>>)
  IN  [rng |-> rng,
       result |-> [success |-> TRUE,
                   effects |-> effects,
                   consumeItem |-> consumable,
                   message |-> IF Len(message) = 0 THEN <<"nothing">> ELSE message]]

(***************************************************************************)
(* The game service's commands (command-processor.service.ts) and the      *)
(* player service they call.  A value of Math.random() is a rational in    *)
(* [0, 1); the player's row is read and written within the handler.        *)
(***************************************************************************)
\* PlayerService.damagePlayer: the row afterwards
DamagePlayer(playerState, amount) ==
  [playerState EXCEPT !.health.current = Max(0, @ - amount)]

\* Math.floor(Math.sqrt(newExperience / 100)), searched from k
RECURSIVE SqrtHundredth(_, _)
SqrtHundredth(newExperience, k) ==
  IF 100 * (k + 1) * (k + 1) > newExperience THEN k
  ELSE SqrtHundredth(newExperience, k + 1)

\* PlayerService.addExperience: what it returns and the row afterwards
AddExperience(playerState, amount) ==
  LET newExperience == playerState.experience + amount
      newLevel == SqrtHundredth(newExperience, 0) + 1
      leveledUp == newLevel > playerState.level
  IN  [newLevel |-> IF leveledUp THEN newLevel ELSE playerState.level,
       leveledUp |-> leveledUp,
       playerState |->
         IF leveledUp
         THEN [playerState EXCEPT !.experience = newExperience,
                                  !.level = newLevel,
                                  !.health = [current |-> @.max + 10, max |-> @.max + 10],
                                  !.mana = [current |-> @.max + 5, max |-> @.max + 5]]
         ELSE [playerState EXCEPT !.experience = newExperience]]

\* the four replies of processTalk
NpcResponses == <<"secrets", "adventurers", "careful", "legends">>

\* processTalk, r the value of Math.random()
ProcessTalk(command, r) ==
  [message |-> [target |-> command.target,
                response |-> NpcResponses[RatFloor(RatMul(r, RatInt(Len(NpcResponses)))) + 1]]]

\* processAttack, r1 and r2 the two values of Math.random() and dateNow the
\* clock: what it returns and the player's row afterwards
ProcessAttack(command, userId, playerState, r1, r2, dateNow) ==
  LET damage == RatFloor(RatMul(r1, RatInt(20))) + 5
      playerDamage == RatFloor(RatMul(r2, RatInt(10))) + 1
      damaged == DamagePlayer(playerState, playerDamage)
      expResult == AddExperience(damaged, 50)
      combatResolved ==
        [type |-> "COMBAT_RESOLVED", encounterId |-> dateNow,
         actor |-> userId, target |-> command.target, damage |-> damage,
         outcome |-> "victory", experience |-> 50, gold |-> 0]
      stateUpdated ==
        [type |-> "STATE_UPDATED", playerId |-> userId, level |-> expResult.newLevel]
  IN  [events |-> IF expResult.leveledUp THEN <<combatResolved, stateUpdated>>
                  ELSE <<combatResolved>>,
       message |-> [target |-> command.target, damage |-> damage,
                    playerDamage |-> playerDamage, leveledUp |-> expResult.leveledUp,
                    newLevel |-> expResult.newLevel],
       playerState |-> expResult.playerState]

(***************************************************************************)
(* The game service under concurrent calls.  Each await of a database call *)
(* is one step of the call in flight; what runs between two awaits runs    *)
(* with the step before it.  The player's row has the columns level,       *)
(* experience, health (healthJson), mana (manaJson) and statsJson.  The    *)
(* narrative and the stateHash of an outcome are left out.                 *)
(***************************************************************************)
\* PlayerService.healPlayer on the row read
HealPlayer(playerState, amount) ==
  [playerState EXCEPT !.health.current = Min(@ + amount, playerState.health.max)]

\* a method of PlayerService after its getPlayerState: the updates it passes
\* to updatePlayerState and what it returns
MethodStep(method, playerState, amount) ==
  CASE method = "damagePlayer" ->
         LET newHealth == DamagePlayer(playerState, amount).health.current
         IN  [updates |-> [health |-> [current |-> newHealth, max |-> playerState.health.max]],
              result |-> [damageTaken |-> playerState.health.current - newHealth,
                          newHealth |-> newHealth, died |-> newHealth = 0]]
    [] method = "healPlayer" ->
         LET newHealth == HealPlayer(playerState, amount).health.current
         IN  [updates |-> [health |-> [current |-> newHealth, max |-> playerState.health.max]],
              result |-> [healingDone |-> newHealth - playerState.health.current,
                          newHealth |-> newHealth]]
    [] method = "addExperience" ->
         LET r == AddExperience(playerState, amount)
         IN  [updates |-> IF r.leveledUp
                          THEN [experience |-> r.playerState.experience,
                                level |-> r.playerState.level,
                                health |-> r.playerState.health,
                                mana |-> r.playerState.mana]
                          ELSE [experience |-> r.playerState.experience],
              result |-> [experienceGained |-> amount, newLevel |-> r.newLevel,
                          leveledUp |-> r.leveledUp]]

\* prisma.playerState.update: the columns of data replace the row's
UpdatePlayerState(row, updates) ==
  [f \in DOMAIN row |-> IF f \in DOMAIN updates THEN updates[f] ELSE row[f]]

\* the turnNumber of processSkillCheck's call of performSkillCheck: the
\* argument is left out and the parameter's default is taken
SkillCheckTurn == 0

\* the (worldSeed, subsystem, entityId, turn) of the d20 of processSkillCheck
SkillCheckSeed(worldId, userId) == <<worldId, "skills", userId, SkillCheckTurn>>

\* processSkillCheck up to its first await: performSkillCheck on the
\* playerState that executeCommand read
ProcessSkillCheckRoll(command, worldId, userId, playerState) ==
  PerformSkillCheck([skill |-> IF "skill" \in DOMAIN command THEN command.skill
                               ELSE "athletics",
                     difficulty |-> IF "difficulty" \in DOMAIN command THEN command.difficulty
                                    ELSE "normal",
                     modifiers |-> <<>>],
                    playerState.statsJson, playerState.level, {}, worldId, userId,
                    SkillCheckTurn)

\* the outcome of processSkillCheck, expResult what addExperience returned
\* (<<>> when the check failed)
SkillCheckOutcome(userId, skillResult, expResult) ==
  LET leveledUp == skillResult.success /\ expResult.leveledUp
  IN  [success |-> TRUE,
       events |-> IF leveledUp
                  THEN <<[type |-> "STATE_UPDATED", playerId |-> userId,
                          level |-> expResult.newLevel]>>
                  ELSE <<>>,
       message |-> [skillResult |-> skillResult, gained |-> skillResult.success,
                    leveledUp |-> leveledUp]]

\* the outcome of processAttack, expResult what addExperience returned
AttackOutcome(command, userId, damage, playerDamage, expResult, dateNow) ==
  LET combatResolved ==
        [type |-> "COMBAT_RESOLVED", encounterId |-> dateNow,
         actor |-> userId, target |-> command.target, damage |-> damage,
         outcome |-> "victory", experience |-> 50, gold |-> 0]
      stateUpdated ==
        [type |-> "STATE_UPDATED", playerId |-> userId, level |-> expResult.newLevel]
  IN  [success |-> TRUE,
       events |-> IF expResult.leveledUp THEN <<combatResolved, stateUpdated>>
                  ELSE <<combatResolved>>,
       message |-> [target |-> command.target, damage |-> damage,
                    playerDamage |-> playerDamage, leveledUp |-> expResult.leveledUp,
                    newLevel |-> expResult.newLevel]]

\* a call of a PlayerService method
MethodCall(method, amount) == [method |-> method, amount |-> amount]

\* a call in flight before its first await; after is the number of calls that
\* had returned when the first database read of executeCommand ran
NewCall(call) ==
  [call |-> call,
   pc |-> IF call.op = "executeCommand" THEN "findAction" ELSE "getPlayerState",
   row |-> <<>>,
   playerState |-> <<>>,
   todo |-> IF call.op = "executeCommand" THEN <<>> ELSE <<MethodCall(call.op, call.amount)>>,
   returns |-> <<>>,
   sync |-> <<>>,
   outcome |-> <<>>,
   after |-> 0]

\* processCommand up to its first await, on the playerState executeCommand
\* read: the PlayerService methods to call and what was computed, r1 and r2
\* the two values of Math.random() of processAttack
BeginCommand(task, worldId, userId, playerState, r1, r2) ==
  LET command == task.call.command
      damage == RatFloor(RatMul(r1, RatInt(20))) + 5
      playerDamage == RatFloor(RatMul(r2, RatInt(10))) + 1
      skillResult == ProcessSkillCheckRoll(command, worldId, userId, playerState)
  IN  CASE command.type = "ATTACK" ->
             [task EXCEPT !.pc = "getPlayerState", !.playerState = playerState,
                          !.todo = <<MethodCall("damagePlayer", playerDamage),
                                     MethodCall("addExperience", 50)>>,
                          !.sync = [damage |-> damage, playerDamage |-> playerDamage]]
        [] command.type = "CUSTOM_SKILL_CHECK" ->
             The({ IF s.success
                   THEN [task EXCEPT !.pc = "getPlayerState", !.playerState = playerState,
                                     !.todo = <<MethodCall("addExperience", 10)>>,
                                     !.sync = [skillResult |-> s,
                                               seed |-> SkillCheckSeed(worldId, userId)]]
                   ELSE [task EXCEPT !.pc = "upsertAction", !.playerState = playerState,
                                     !.sync = [skillResult |-> s,
                                               seed |-> SkillCheckSeed(worldId, userId)],
                                     !.outcome = SkillCheckOutcome(userId, s, <<>>)] :
                   s \in {skillResult} })
        [] OTHER ->
             [task EXCEPT !.pc = "upsertAction", !.playerState = playerState,
                          !.outcome = [success |-> FALSE, events |-> <<>>,
                                       message |-> [unknown |-> command.type]]]

\* a method of PlayerService returned result: the next method of the
\* command, the command's outcome, or the return of the call
AfterMethod(task, userId, result, dateNow) ==
  LET returns == Append(task.returns, result)
      rest == Tail(task.todo)
      done == [task EXCEPT !.todo = rest, !.returns = returns]
  IN  IF rest # <<>> THEN [done EXCEPT !.pc = "getPlayerState"]
      ELSE IF task.call.op # "executeCommand"
      THEN [done EXCEPT !.pc = "returned", !.outcome = result]
      ELSE IF task.call.command.type = "ATTACK"
      THEN [done EXCEPT !.pc = "upsertAction",
                        !.outcome = AttackOutcome(task.call.command, userId, task.sync.damage,
                                                  task.sync.playerDamage, result, dateNow)]
      ELSE [done EXCEPT !.pc = "upsertAction",
                        !.outcome = SkillCheckOutcome(userId, task.sync.skillResult, result)]

(***************************************************************************)
(* Calls of the engine's functions and of the service's commands           *)
(***************************************************************************)
MaxCalls == 2
MaxNow == 1
MaxDraws == 4
MaxTurns == 2

\* one method call on a generator: the generator afterwards and what the
\* call returned
RunOp(g, o) ==
  CASE o.op = "next" -> LET r == PrngNext(g) IN [g |-> r.g, out |-> [op |-> o.op, v |-> r.v]]
    [] o.op = "random" -> LET r == PrngRandom(g) IN [g |-> r.g, out |-> [op |-> o.op, v |-> r.v]]
    [] o.op = "randInt" ->
         LET r == PrngRandInt(g, o.min, o.max) IN [g |-> r.g, out |-> [op |-> o.op, v |-> r.v]]
    [] o.op = "randFloat" ->
         LET r == PrngRandFloat(g, Tenths(o.min), Tenths(o.max))
         IN  [g |-> r.g, out |-> [op |-> o.op, v |-> r.v]]
    [] o.op = "rollDice" ->
         LET r == PrngRollDice(g, o.notation)
         IN  [g |-> r.g,
              out |-> [op |-> o.op, v |-> r.v, threw |-> r.threw, draws |-> r.draws,
                       notation |-> o.notation]]
    [] o.op = "choice" ->
         LET r == PrngChoice(g, o.array)
         IN  [g |-> r.g, out |-> [op |-> o.op, v |-> r.v, threw |-> r.threw]]
    [] o.op = "weightedChoice" ->
         LET r == WeightedChoice(g, o.items, o.weights)
         IN  [g |-> r.g, out |-> [op |-> o.op, v |-> r.v, threw |-> r.threw]]

RECURSIVE RunScript(_, _, _)
RunScript(g, script, i) ==
  IF i > Len(script) \/ i > MaxDraws THEN <<>>
  ELSE The({ <<r.out>> \o RunScript(r.g, script, i + 1) : r \in {RunOp(g, script[i])} })

OpNext == [op |-> "next", notation |-> <<>>, min |-> 0, max |-> 0]
OpRandom == [op |-> "random", notation |-> <<>>, min |-> 0, max |-> 0]
OpRandInt(lo, hi) == [op |-> "randInt", notation |-> <<>>, min |-> lo, max |-> hi]
OpRandFloat(lo, hi) == [op |-> "randFloat", notation |-> <<>>, min |-> lo, max |-> hi]
OpRollDice(n) == [op |-> "rollDice", notation |-> n, min |-> 0, max |-> 0]

Scripts ==
  { <<OpRollDice(<<"3", "d", "6", "+", "2">>), OpRollDice(<<"1", "d", "2", "0">>),
      OpNext, OpRandom, OpRandInt(1, 6)>>,
    <<OpRandInt(5, 15), OpRandFloat(8, 12), OpRandInt(15, 5),
      OpRollDice(<<"2", "d", "4", "-", "9">>), OpNext>>,
    <<OpRollDice(<<"1", "D", "2", "0">>), OpRollDice(<<"d", "6">>),
      OpRollDice(<<"2", "d", "6", "-", "3">>), OpRollDice(<<"3", "d", "6", "+">>),
      OpRandom>> }

WorldSeeds == {"seed-A", "seed-B"}
DrawEntities == {"wolf-1", "wolf-78", "wolf-619"}

DrawRequests ==
  { [fn |-> "draws", worldSeed |-> w, subsystem |-> "combat", entityId |-> e, turn |-> 0,
     script |-> s] : w \in WorldSeeds, e \in DrawEntities, s \in Scripts }

\* notations of the grammar NdM[(+|-)K], each part with the number it
\* writes; a modifier is written as a signed number
DiceCounts == {<<<<"0">>, 0>>, <<<<"1">>, 1>>, <<<<"2">>, 2>>, <<<<"3">>, 3>>}
DiceSides == {<<<<"0">>, 0>>, <<<<"1">>, 1>>, <<<<"6">>, 6>>, <<<<"2", "0">>, 20>>}
DiceModifiers == {<<<<>>, 0>>, <<<<"+", "2">>, 2>>, <<<<"-", "9">>, -9>>, <<<<"+", "0">>, 0>>}

DiceRequests ==
  { [fn |-> "dice", worldSeed |-> "seed-A", entityId |-> e,
     notation |-> n[1] \o <<"d">> \o m[1] \o k[1],
     numDice |-> n[2], sides |-> m[2], signedModifier |-> k[2]] :
    e \in {"wolf-78", "wolf-619"}, n \in DiceCounts, m \in DiceSides, k \in DiceModifiers }

SkillStats ==
  { [strength |-> 1, dexterity |-> 8],
    [strength |-> 0, dexterity |-> 8],
    [strength |-> 48, athleticsBonus |-> 2] }

SkillChecks ==
  { [skill |-> k, difficulty |-> d, modifiers |-> m] :
    k \in {"athletics", "lockpicking"},
    d \in DOMAIN DifficultyDCs,
    m \in {<<>>, <<-10>>, <<2, 3>>} }

SkillEntities == {"user-3", "user-46", "user-4"}

SkillRequests ==
  { [fn |-> "skill", check |-> c, stats |-> st, level |-> lp[1], proficiencies |-> lp[2],
     worldSeed |-> "seed-A", entityId |-> e, turnNumber |-> 0] :
    c \in SkillChecks, st \in SkillStats, lp \in {<<1, {}>>, <<7, {"athletics"}>>},
    e \in SkillEntities }

Fighter(id, dexterity, statusEffects) ==
  [id |-> id, level |-> 1, stats |-> [dexterity |-> dexterity],
   health |-> [current |-> 10, max |-> 10], statusEffects |-> statusEffects]

Slowed == [id |-> "slowed", duration |-> 2, effects |-> [dexterity |-> -5]]

InitiativeLists ==
  { <<Fighter("hero", 14, <<>>), Fighter("wolf", 11, <<>>), Fighter("bat", 10, <<>>)>>,
    <<Fighter("bat", 10, <<>>), Fighter("rat", 10, <<>>), Fighter("orc", 9, <<>>)>>,
    <<Fighter("rat", 10, <<>>), Fighter("bat", 10, <<>>)>>,
    <<Fighter("bat", 10, <<>>), Fighter("rat", 11, <<>>)>>,
    <<Fighter("hero", 14, <<Slowed>>), Fighter("orc", 0, <<>>), Fighter("wolf", 30, <<>>)>>,
    <<>> }

InitiativeRequests ==
  { [fn |-> "initiative", combatants |-> l, worldSeed |-> w] :
    l \in InitiativeLists, w \in WorldSeeds }

Archetype(slug, rarity, slot, tags, stats, cooldown) ==
  [slug |-> slug, rarity |-> rarity, slot |-> slot, tags |-> tags, stats |-> stats,
   cooldown |-> cooldown]

BaseStat(stat, baseValue) == [stat |-> stat, baseValue |-> baseValue]

ItemArchetypes ==
  [iron_sword |-> Archetype("iron_sword", "common", "weapon", {"melee"},
                            <<BaseStat("attack", 10)>>, 0),
   health_potion |-> Archetype("health_potion", "common", "consumable", {"healing"},
                               <<BaseStat("healing", 25)>>, 0),
   silver_helm |-> Archetype("silver_helm", "rare", "head", {"armor"},
                             <<BaseStat("armor", 4), BaseStat("resistance", 1),
                               BaseStat("weight", 0)>>, 0),
   ruby_ring |-> Archetype("ruby_ring", "epic", "ring", {"jewel"},
                           <<BaseStat("critPercent", 5)>>, 0),
   dragon_crown |-> Archetype("dragon_crown", "legendary", "head", {"armor"},
                              <<BaseStat("armor", 9)>>, 0),
   battle_elixir |-> Archetype("battle_elixir", "rare", "consumable", {"mana", "buff"},
                               <<BaseStat("strength", 3), BaseStat("manaRestore", 0)>>, 60),
   plate_armor |-> Archetype("plate_armor", "epic", "chest", {"armor"},
                             <<BaseStat("armor", 12)>>, 0),
   lockpick |-> Archetype("lockpick", "common", "trinket", {"tool", "lockpick"}, <<>>, 0),
   pebble |-> Archetype("pebble", "common", "trinket", {}, <<>>, 0)]

LootEntry(archetypeSlug, weight, minQuantity, maxQuantity) ==
  [archetypeSlug |-> archetypeSlug, weight |-> weight, minQuantity |-> minQuantity,
   maxQuantity |-> maxQuantity]

LootTables ==
  << [key |-> "generic_drops", entries |-> <<LootEntry("health_potion", 50, 1, 2)>>],
     [key |-> "wolf_drops",
      entries |-> <<LootEntry("iron_sword", 60, 1, 1), LootEntry("health_potion", 80, 1, 3),
                    LootEntry("ghost_item", 100, 1, 1), LootEntry("ruby_ring", 40, 1, 1)>>],
     [key |-> "boss_drops",
      entries |-> <<LootEntry("silver_helm", 70, 1, 1), LootEntry("dragon_crown", 50, 1, 1),
                    LootEntry("ruby_ring", 90, 1, 2), LootEntry("plate_armor", 95, 1, 1)>>] >>

DropIds == {"drop-1", "drop-2", "drop-3", "drop-5", "drop-7", "drop-12", "drop-84"}

LootRequests ==
  { [fn |-> "loot", lootTable |-> LootTables[t],
     context |-> [sourceLevel |-> 5, sourceName |-> "Wolf", playerLevel |-> 3,
                  playerLuck |-> 10, magicFind |-> 20, worldSeed |-> "seed-A",
                  dropId |-> d]] :
    t \in {2, 3}, d \in DropIds }

EnemyLootRequests ==
  { [fn |-> "enemyLoot", enemyLevel |-> 5, enemyName |-> n, playerLevel |-> 3,
     playerLuck |-> 10, magicFind |-> 20, worldSeed |-> w] :
    n \in DOMAIN EnemyDropIds, w \in WorldSeeds }

UseItemRequests ==
  { [fn |-> "useItem", archetype |-> ItemArchetypes[a], instance |-> [id |-> i],
     context |-> [userId |-> "user-1", worldId |-> "world-1", worldSeed |-> w]] :
    a \in {"health_potion", "battle_elixir", "lockpick", "pebble", "iron_sword"},
    i \in {"item-1", "item-2"}, w \in WorldSeeds }

InstanceIds == {"inst-4", "inst-10", "inst-39", "inst-123"}

ItemInstanceRequests ==
  { [fn |-> "itemInstance", archetype |-> ItemArchetypes[a],
     context |-> [mintWorldId |-> "world-1", quality |-> q, worldSeed |-> "seed-A",
                  instanceId |-> i]] :
    a \in {"iron_sword", "silver_helm", "ruby_ring", "health_potion"},
    q \in {<<>>, <<RatInt(1)>>, <<Tenths(8)>>}, i \in InstanceIds }

XPRequests == { [fn |-> "xp", level |-> n] : n \in (-1)..MaxLevel }

\* total experiences around the level boundaries
LevelXPs ==
  {0, 1} \cup UNION { {t - 1, t, t + 1} :
                      t \in {CalculateTotalXPForLevel(l) : l \in 2..(MaxLevel + 1)} }

LevelRequests == { [fn |-> "level", totalXP |-> x] : x \in LevelXPs }

\* the total experience of each level, and a gain of one point or of the
\* experience that the next level costs
LevelInfoRequests ==
  { [fn |-> "levelInfo", totalXP |-> CalculateTotalXPForLevel(l),
     gain |-> IF whole THEN CalculateXPForLevel(l + 1) ELSE 1] :
    l \in 1..(MaxLevel \div 2), whole \in BOOLEAN }

PlayerRow(level, experience, current) ==
  [level |-> level, experience |-> experience, health |-> [current |-> current, max |-> 20],
   mana |-> [current |-> 5, max |-> 10]]

AttackRequests ==
  { [fn |-> "attack", command |-> [target |-> t], userId |-> "user-1", playerState |-> p] :
    t \in {"wolf"},
    p \in {PlayerRow(1, 0, 20), PlayerRow(1, 60, 3), PlayerRow(2, 350, 12)} }

TalkRequests ==
  { [fn |-> "talk", command |-> [target |-> t]] : t \in {"elder", "smith"} }

\* level gaps from -7 to 7 on each base difficulty
DifficultyRequests ==
  { [fn |-> "difficulty", baseLevel |-> b, playerLevel |-> p, baseDifficulty |-> d] :
    b \in 1..8, p \in 1..8, d \in DOMAIN DifficultyDCs }

\* the values of Math.random() of the model: 0, 1/2 and 3/4
MathRandom == {Rat(<<>>, <<1>>), Rat(<<1>>, <<2>>), Rat(<<3>>, <<4>>)}

Requests ==
  DrawRequests \cup DiceRequests \cup SkillRequests \cup InitiativeRequests
    \cup LootRequests \cup EnemyLootRequests \cup UseItemRequests \cup ItemInstanceRequests
    \cup XPRequests \cup LevelRequests \cup AttackRequests \cup TalkRequests
    \cup DifficultyRequests \cup LevelInfoRequests

NoEntities == [id \in {} |-> id]

Init ==
  req \in Requests /\ res = <<>> /\ now = 0 /\ entityMap = NoEntities /\ gens = <<>> /\ NoService

\* a call of the function the request names is made, and returns
Called(fn) == req.fn = fn /\ Len(res) < MaxCalls

Returns(result) == res' = Append(res, result) /\ UNCHANGED <<req, now, entityMap, gens, service>>

\* createSubsystemPRNG and a sequence of draws on the new generator
CallDraws ==
  /\ Called("draws")
  /\ Returns(RunScript(CreateSubsystemPRNG(req.worldSeed, req.subsystem,
                                                 req.entityId, req.turn),
                             req.script, 1))

\* rollDice on a new generator
CallRollDice ==
  /\ Called("dice")
  /\ Returns([r \in {"threw", "v", "draws"} |->
                     PrngRollDice(CreateSubsystemPRNG(req.worldSeed, "combat",
                                                      req.entityId, 0),
                                  req.notation)[r]])

CallPerformSkillCheck ==
  /\ Called("skill")
  /\ Returns(PerformSkillCheck(req.check, req.stats, req.level, req.proficiencies,
                                     req.worldSeed, req.entityId, req.turnNumber))

CallRollInitiative ==
  /\ Called("initiative")
  /\ Returns(RollInitiative(req.combatants, req.worldSeed))

CallGenerateLoot ==
  /\ Called("loot")
  /\ Returns(GenerateLoot(req.lootTable, req.context, ItemArchetypes))

CallGenerateEnemyLoot ==
  /\ Called("enemyLoot")
  /\ Returns(GenerateEnemyLoot(req.enemyLevel, req.enemyName, req.playerLevel,
                                         req.playerLuck, req.magicFind, req.worldSeed,
                                         LootTables, ItemArchetypes, now))

CallUseItem ==
  /\ Called("useItem")
  /\ Returns(UseItem(req.archetype, req.instance, req.context, now))

CallGenerateItemInstance ==
  /\ Called("itemInstance")
  /\ Returns(GenerateItemInstance(req.archetype, req.context))

CallCalculateXPForLevel ==
  /\ Called("xp")
  /\ Returns([xp |-> CalculateXPForLevel(req.level),
                 next |-> CalculateXPForLevel(req.level + 1)])

CallGetLevelFromXP ==
  /\ Called("level")
  /\ Returns(GetLevelFromXP(req.totalXP))

\* the ATTACK command on the player's row of the request
CallProcessAttack ==
  /\ Called("attack")
  /\ \E r1 \in MathRandom, r2 \in MathRandom :
       Returns(ProcessAttack(req.command, req.userId, req.playerState, r1, r2, now))

\* the TALK command
CallProcessTalk ==
  /\ Called("talk")
  /\ \E r \in MathRandom : Returns(ProcessTalk(req.command, r))

CallCalculateDynamicDifficulty ==
  /\ Called("difficulty")
  /\ Returns(CalculateDynamicDifficulty(req.baseLevel, req.playerLevel, req.baseDifficulty))

\* getLevelInfo before and after a gain of experience
CallGetLevelInfo ==
  /\ Called("levelInfo")
  /\ Returns([info |-> GetLevelInfo(req.totalXP),
              later |-> GetLevelInfo(req.totalXP + req.gain)])

\* time passes
Tick == now < MaxNow /\ now' = now + 1 /\ UNCHANGED <<req, res, entityMap, gens, service>>

Next ==
  \/ CallDraws
  \/ CallRollDice
  \/ CallPerformSkillCheck
  \/ CallRollInitiative
  \/ CallGenerateLoot
  \/ CallGenerateEnemyLoot
  \/ CallUseItem
  \/ CallGenerateItemInstance
  \/ CallCalculateXPForLevel
  \/ CallGetLevelFromXP
  \/ CallProcessAttack
  \/ CallProcessTalk
  \/ CallCalculateDynamicDifficulty
  \/ CallGetLevelInfo
  \/ Tick

Spec == Init /\ [][Next]_vars

(***************************************************************************)
(* Combat: a sequence of turns on one map of entities, with a call of      *)
(* checkCombatEnd after each.  res holds, for each turn resolved, the      *)
(* entities before it and what the two calls returned.                     *)
(***************************************************************************)
Weakened == [id |-> "weakened", duration |-> 2, effects |-> [strength |-> -20, armor |-> 3]]

Hero(statusEffects) ==
  [id |-> "hero", level |-> 5,
   stats |-> [strength |-> 16, dexterity |-> 14, luck |-> 12, weaponDamage |-> 6],
   health |-> [current |-> 30, max |-> 30], statusEffects |-> statusEffects]

Wolf(current) ==
  [id |-> "wolf", level |-> 2,
   stats |-> [strength |-> 12, dexterity |-> 12, armor |-> 1, resistance |-> 50, luck |-> 5],
   health |-> [current |-> current, max |-> 12], statusEffects |-> <<>>]

Bat ==
  [id |-> "bat", level |-> 1, stats |-> [dexterity |-> 15],
   health |-> [current |-> 4, max |-> 4], statusEffects |-> <<>>]

CombatSetups ==
  { [hero |-> Hero(<<>>), wolf |-> Wolf(c)] : c \in {0, 3, 12} }
    \cup {[hero |-> Hero(<<Weakened>>), wolf |-> Wolf(12)]}
    \cup {[hero |-> [Hero(<<>>) EXCEPT !.health.current = 0], wolf |-> Wolf(0)],
          [hero |-> Hero(<<>>), wolf |-> Wolf(0), bat |-> Bat]}

\* actor and target of the attacks; "ghost" is in no map, "bat" in one map
\* only, "" is no target
FighterIds == {"hero", "wolf"}
AttackPairs ==
  {<<"hero", "wolf">>, <<"wolf", "hero">>, <<"hero", "">>, <<"ghost", "wolf">>,
   <<"hero", "bat">>}

InitCombat ==
  /\ req = [fn |-> "combat", worldSeed |-> "seed-A"]
  /\ res = <<>>
  /\ now = 0
  /\ entityMap \in CombatSetups
  /\ gens = <<>>
  /\ NoService

\* a further turn of the combat can be resolved
InCombat == req.fn = "combat" /\ Len(res) < MaxTurns

\* resolveCombatTurn for the next turn of the combat
Resolve(action) ==
  \E r \in {ResolveCombatTurn(Len(res), action, entityMap, req.worldSeed)} :
    /\ entityMap' = r.entities
    /\ res' = Append(res, [before |-> entityMap, action |-> action, threw |-> r.threw,
                           combatTurn |-> r.combatTurn,
                           end |-> CheckCombatEnd(r.entities)])
    /\ UNCHANGED <<req, now, gens, service>>

TurnAttack ==
  /\ InCombat
  /\ \E p \in AttackPairs :
       Resolve([actorId |-> p[1], type |-> "attack", targetId |-> p[2]])

TurnDefend ==
  /\ InCombat
  /\ \E a \in FighterIds : Resolve([actorId |-> a, type |-> "defend", targetId |-> ""])

TurnFlee ==
  /\ InCombat
  /\ Resolve([actorId |-> "hero", type |-> "flee", targetId |-> ""])

\* a type without a case of its own
TurnCast ==
  /\ InCombat
  /\ Resolve([actorId |-> "hero", type |-> "cast", targetId |-> ""])

NextCombat == TurnAttack \/ TurnDefend \/ TurnFlee \/ TurnCast

SpecCombat == InitCombat /\ [][NextCombat]_vars

(***************************************************************************)
(* getState, setState: a state string is a sequence of characters          *)
(***************************************************************************)
HexChars ==
  <<"0", "1", "2", "3", "4", "5", "6", "7", "8", "9", "a", "b", "c", "d", "e", "f">>

HexValue(c) == (CHOOSE d \in 1..16 : HexChars[d] = c) - 1

\* the hex digits of a, most significant first, leading zeros included
Nibbles(a) ==
  [k \in 1..(2 * Len(a)) |->
     LET byte == a[Len(a) - ((k - 1) \div 2)]
     IN  IF k % 2 = 1 THEN byte \div 16 ELSE byte % 16]

RECURSIVE StripZeros(_)
StripZeros(digits) ==
  IF digits = <<>> THEN <<0>>
  ELSE IF Len(digits) > 1 /\ Head(digits) = 0 THEN StripZeros(Tail(digits))
  ELSE digits

\* value.toString(16)
ToString16(a) ==
  LET digits == StripZeros(Nibbles(a))
  IN  [k \in 1..Len(digits) |-> HexChars[digits[k] + 1]]

\* BigInt('0x' + hex)
HexToBig(hex) ==
  LET At(k) == IF k >= 1 THEN HexValue(hex[k]) ELSE 0
  IN  [i \in 1..((Len(hex) + 1) \div 2) |->
         16 * At(Len(hex) - 2 * (i - 1) - 1) + At(Len(hex) - 2 * (i - 1))]

\* the index of the first ':' of str
ColonAt(str) == CHOOSE k \in 1..Len(str) : str[k] = ":" /\ \A j \in 1..(k - 1) : str[j] # ":"

\* getState(): `${this.state.toString(16)}:${this.inc.toString(16)}`
GetState(g) == ToString16(g.state) \o <<":">> \o ToString16(g.inc)

\* a faulty setState: the two parts of the string are taken in the wrong order
SetStateSwapped(g, stateStr) ==
  LET stateHex == SubSeq(stateStr, 1, ColonAt(stateStr) - 1)
      incHex == SubSeq(stateStr, ColonAt(stateStr) + 1, Len(stateStr))
  IN  [state |-> Trunc(HexToBig(incHex), 8), inc |-> HexToBig(stateHex)]

\* setState(stateStr) on generator g, for a string with one ':' and a state
\* below 2^64, which is held as 8 bytes
SetState(g, stateStr) ==
  LET stateHex == SubSeq(stateStr, 1, ColonAt(stateStr) - 1)
      incHex == SubSeq(stateStr, ColonAt(stateStr) + 1, Len(stateStr))
  IN  [state |-> Trunc(HexToBig(stateHex), 8), inc |-> HexToBig(incHex)]

(***************************************************************************)
(* Generator objects: two generators made by createSubsystemPRNG, from     *)
(* equal or from different keys, and calls on them in any order.  res      *)
(* holds, for each call, the generator it was made on and what it          *)
(* returned.                                                               *)
(***************************************************************************)
MaxOps == 3

GeneratorIds == {"a", "b"}

\* notations that do not match /^(\d+)d(\d+)(?:([+-])(\d+))?$/i
MalformedNotations == {<<"d", "6">>, <<"2", "d", "6", "+">>, <<"2", "d", "6", " ">>, <<>>}

GeneratorRequest(worldSeed, a, b, notation) ==
  [fn |-> "generators", worldSeed |-> worldSeed, entityIds |-> [a |-> a, b |-> b],
   notation |-> notation]

\* the entity ids of the two generators and the notation given to rollDice
GeneratorRequests ==
  { GeneratorRequest("seed-A", "wolf-1", "wolf-1", <<"1", "d", "6", "+", "2">>),
    GeneratorRequest("seed-A", "wolf-1", "wolf-78", <<"d", "6">>),
    GeneratorRequest("seed-B", "wolf-78", "wolf-78", <<"2", "d", "6", "+">>),
    GeneratorRequest("seed-B", "wolf-619", "wolf-1", <<"2", "d", "6", " ">>),
    GeneratorRequest("seed-A", "wolf-78", "wolf-619", <<>>) }

\* the generator createSubsystemPRNG returns for generator id of the request
NewGenerator(id) == CreateSubsystemPRNG(req.worldSeed, "combat", req.entityIds[id], 0)

InitGenerators ==
  /\ req \in GeneratorRequests
  /\ res = <<>>
  /\ now = 0
  /\ entityMap = NoEntities
  /\ gens = [id \in GeneratorIds |-> NewGenerator(id)]
  /\ NoService

\* a faulty generator: the state is one field that all generators share
DrawOnShared(generators, id, o) ==
  The({ [gens |-> [k \in DOMAIN generators |-> r.g], out |-> r.out] :
        r \in {RunOp(generators[id], o)} })

\* a method call on generator id: this.state of that object alone is written
DrawOn(generators, id, o) ==
  The({ [gens |-> [generators EXCEPT ![id] = r.g], out |-> r.out] :
        r \in {RunOp(generators[id], o)} })

\* a further call can be made on the generators
OnGenerators == req.fn = "generators" /\ Len(res) < MaxOps

GenDraw(id, o) ==
  \E d \in {DrawOn(gens, id, o)} :
    /\ gens' = d.gens
    /\ res' = Append(res, [gen |-> id, out |-> d.out])
    /\ UNCHANGED <<req, now, entityMap, service>>

GenNext ==
  /\ OnGenerators
  /\ \E id \in GeneratorIds : GenDraw(id, OpNext)

GenRollDice ==
  /\ OnGenerators
  /\ \E id \in GeneratorIds : GenDraw(id, OpRollDice(req.notation))

\* suspend and resume: the state string of generator id is taken with
\* getState() and given to setState() of a new PRNG(0), which takes the
\* place of the generator
GenResume ==
  /\ OnGenerators
  /\ \E id \in GeneratorIds :
       \E saved \in {GetState(gens[id])} :
         \E h \in {SetState(PrngNew(Trunc(<<>>, 8)), saved)} :
           /\ gens' = [gens EXCEPT ![id] = h]
           /\ res' = Append(res, [gen |-> id,
                                  out |-> [op |-> "resume", saved |-> saved,
                                           restored |-> GetState(h)]])
           /\ UNCHANGED <<req, now, entityMap, service>>

NextGenerators == GenNext \/ GenRollDice \/ GenResume

SpecGenerators == InitGenerators /\ [][NextGenerators]_vars

(***************************************************************************)
(* choice and weightedChoice: generator p is a PRNG, generator d a         *)
(* DeterministicPRNG.  res holds each call with what it returned.          *)
(***************************************************************************)
ChoiceRequests ==
  { [fn |-> "choices", worldSeed |-> "seed-A", entityId |-> "drop-1"],
    [fn |-> "choices", worldSeed |-> "seed-A", entityId |-> "drop-7"] }

ChoiceArrays == {<<>>, <<"x", "y", "z">>}

\* items and weights: the last two have a positive total
WeightedInputs ==
  { <<<<>>, <<>>>>,
    <<<<"x", "y">>, <<1>>>>,
    <<<<"x", "y">>, <<2, -3>>>>,
    <<<<"x", "y">>, <<0, 5>>>>,
    <<<<"x", "y", "z">>, <<3, 0, 1>>>> }

OpChoice(array) == [op |-> "choice", array |-> array]

OpWeightedChoice(items, weights) == [op |-> "weightedChoice", items |-> items, weights |-> weights]

InitChoices ==
  /\ req \in ChoiceRequests
  /\ res = <<>>
  /\ now = 0
  /\ entityMap = NoEntities
  /\ gens = [p |-> CreateSubsystemPRNG(req.worldSeed, "loot", req.entityId, 0),
             d |-> DetNew(req.worldSeed, "loot", req.entityId, 0)]
  /\ NoService

\* a further call can be made
OnChoices == req.fn = "choices" /\ Len(res) < MaxOps

Choose(id, o) ==
  \E d \in {DrawOn(gens, id, o)} :
    /\ gens' = d.gens
    /\ res' = Append(res, [gen |-> id, call |-> o, out |-> d.out])
    /\ UNCHANGED <<req, now, entityMap, service>>

CallChoice ==
  /\ OnChoices
  /\ \E array \in ChoiceArrays : Choose("p", OpChoice(array))

CallWeightedChoice ==
  /\ OnChoices
  /\ \E in \in WeightedInputs : Choose("d", OpWeightedChoice(in[1], in[2]))

NextChoices == CallChoice \/ CallWeightedChoice

SpecChoices == InitChoices /\ [][NextChoices]_vars

(***************************************************************************)
(* The game service: calls of PlayerService methods and of executeCommand  *)
(* in flight together on one player's row of one world.  res holds what    *)
(* each call returned, in the order of the returns.                        *)
(***************************************************************************)
ServiceRow(level, experience, current) ==
  PlayerRow(level, experience, current) @@ [statsJson |-> [strength |-> 10, dexterity |-> 10]]

ServiceRows == {ServiceRow(1, 0, 20), ServiceRow(1, 95, 10)}

Method(op, amount) == [op |-> op, amount |-> amount]

Command(idempotencyKey, command) ==
  [op |-> "executeCommand", idempotencyKey |-> idempotencyKey, command |-> command]

AttackCommand == [type |-> "ATTACK", target |-> "wolf"]

EasySkillCommand == [type |-> "CUSTOM_SKILL_CHECK", skill |-> "athletics", difficulty |-> "easy"]

DefaultSkillCommand == [type |-> "CUSTOM_SKILL_CHECK"]

\* the calls made together
ServiceBatches ==
  { <<Method("damagePlayer", 3), Method("healPlayer", 5), Method("addExperience", 50)>>,
    <<Method("damagePlayer", 3), Method("damagePlayer", 5)>>,
    <<Method("addExperience", 10), Method("addExperience", 50)>>,
    <<Command("k1", EasySkillCommand), Command("k1", EasySkillCommand)>>,
    <<Command("k1", EasySkillCommand), Command("k2", EasySkillCommand)>>,
    <<Command("k1", DefaultSkillCommand), Command("k2", [type |-> "DANCE"])>>,
    <<Command("k1", AttackCommand), Command("k1", AttackCommand)>> }

ServiceRequests ==
  { [fn |-> "service", worldId |-> "seed-A", userId |-> "user-4", playerState |-> p,
     batch |-> b] : p \in ServiceRows, b \in ServiceBatches }

InitService ==
  /\ req \in ServiceRequests
  /\ res = <<>>
  /\ now = 0
  /\ entityMap = NoEntities
  /\ gens = <<>>
  /\ db = [playerState |-> req.playerState, action |-> <<>>, world |-> [status |-> "READY"]]
  /\ inFlight = [i \in 1..Len(req.batch) |-> NewCall(req.batch[i])]
  /\ outbox = <<>>
  /\ itemInstance = <<>>

OnService == req.fn = "service"

\* call i goes on as task; a call that returned is logged
GoesOn(i, task) ==
  /\ inFlight' = [inFlight EXCEPT ![i] = task]
  /\ res' = IF task.pc = "returned" THEN Append(res, [call |-> i, value |-> task.outcome])
            ELSE res
  /\ UNCHANGED <<req, now, entityMap, gens, itemInstance>>

\* executeCommand: prisma.action.findUnique and the return of a stored outcome
ExecuteFindAction ==
  /\ OnService
  /\ \E i \in DOMAIN inFlight :
       /\ inFlight[i].pc = "findAction"
       /\ GoesOn(i, IF inFlight[i].call.idempotencyKey \in DOMAIN db.action
                    THEN [inFlight[i] EXCEPT
                            !.pc = "returned", !.after = Len(res),
                            !.outcome = db.action[inFlight[i].call.idempotencyKey]]
                    ELSE [inFlight[i] EXCEPT !.pc = "loadPlayerState", !.after = Len(res)])
       /\ UNCHANGED <<db, outbox>>

\* executeCommand: the world's status is read, then the player's row, and
\* processCommand runs up to its first await
ExecuteGetPlayerState ==
  /\ OnService
  /\ \E i \in DOMAIN inFlight :
       /\ inFlight[i].pc = "loadPlayerState"
       /\ \E r1 \in MathRandom, r2 \in MathRandom :
            GoesOn(i, IF db.world.status # "READY"
                      THEN [inFlight[i] EXCEPT !.pc = "returned",
                                               !.outcome = [threw |-> "NotFoundException"]]
                      ELSE BeginCommand(inFlight[i], req.worldId, req.userId,
                                        db.playerState, r1, r2))
       /\ UNCHANGED <<db, outbox>>

\* a PlayerService method: getPlayerState
MethodGetPlayerState ==
  /\ OnService
  /\ \E i \in DOMAIN inFlight :
       /\ inFlight[i].pc = "getPlayerState"
       /\ GoesOn(i, [inFlight[i] EXCEPT !.pc = "updatePlayerState", !.row = db.playerState])
       /\ UNCHANGED <<db, outbox>>

\* a PlayerService method: updatePlayerState with the updates computed from
\* the row it read, and its return
MethodUpdatePlayerState ==
  /\ OnService
  /\ \E i \in DOMAIN inFlight :
       /\ inFlight[i].pc = "updatePlayerState"
       /\ \E m \in {MethodStep(Head(inFlight[i].todo).method, inFlight[i].row,
                               Head(inFlight[i].todo).amount)} :
            /\ db' = [db EXCEPT !.playerState = UpdatePlayerState(@, m.updates)]
            /\ GoesOn(i, AfterMethod(inFlight[i], req.userId, m.result, now))
       /\ UNCHANGED outbox

\* executeCommand: prisma.action.upsert of the outcome, and the return of an
\* outcome without events
ExecuteUpsertAction ==
  /\ OnService
  /\ \E i \in DOMAIN inFlight :
       /\ inFlight[i].pc = "upsertAction"
       /\ db' = [db EXCEPT !.action = (inFlight[i].call.idempotencyKey :> inFlight[i].outcome) @@ @]
       /\ GoesOn(i, [inFlight[i] EXCEPT
                       !.pc = IF Len(inFlight[i].outcome.events) > 0 THEN "emitEvents"
                              ELSE "returned"])
       /\ UNCHANGED outbox

\* executeCommand: eventEmitter.emitEvents and the return
ExecuteEmitEvents ==
  /\ OnService
  /\ \E i \in DOMAIN inFlight :
       /\ inFlight[i].pc = "emitEvents"
       /\ outbox' = Append(outbox, [call |-> i, events |-> inFlight[i].outcome.events])
       /\ GoesOn(i, [inFlight[i] EXCEPT !.pc = "returned"])
       /\ UNCHANGED db

NextService ==
  \/ ExecuteFindAction
  \/ ExecuteGetPlayerState
  \/ MethodGetPlayerState
  \/ MethodUpdatePlayerState
  \/ ExecuteUpsertAction
  \/ ExecuteEmitEvents

SpecService == InitService /\ [][NextService]_vars

(***************************************************************************)
(* Durability: repairItem and degradeItem called one after the other on an *)
(* instance that generateItemInstance made.  res holds, for each call, the *)
(* instance before it and what it returned.                                *)
(***************************************************************************)
DurabilityRequests ==
  { [fn |-> "durability", archetype |-> ItemArchetypes[a],
     context |-> [mintWorldId |-> "world-1", quality |-> q, worldSeed |-> "seed-A",
                  instanceId |-> "inst-4"]] :
    a \in {"iron_sword", "silver_helm", "health_potion"}, q \in {<<>>, <<Tenths(8)>>} }

\* the amounts of a repair: left out, nothing, some, more than the maximum
RepairAmounts == {<<>>, <<0>>, <<30>>, <<200>>}

\* the amounts of wear: left out, nothing, some, more than the maximum
DegradeAmounts == {<<>>, <<0>>, <<40>>, <<200>>}

InitDurability ==
  /\ req \in DurabilityRequests
  /\ res = <<>>
  /\ now = 0
  /\ entityMap = NoEntities
  /\ gens = <<>>
  /\ db = <<>>
  /\ inFlight = <<>>
  /\ outbox = <<>>
  /\ itemInstance = GenerateItemInstance(req.archetype, req.context)

\* a further call can be made on the instance
OnInstance == req.fn = "durability" /\ Len(res) < MaxOps

\* a call on the instance returned r
Wears(op, amount, r) ==
  /\ itemInstance' = r.instance
  /\ res' = Append(res, [op |-> op, amount |-> amount, before |-> itemInstance,
                         result |-> r.result])
  /\ UNCHANGED <<req, now, entityMap, gens, db, inFlight, outbox>>

CallRepairItem ==
  /\ OnInstance
  /\ \E repairAmount \in RepairAmounts :
       Wears("repairItem", repairAmount, RepairItem(itemInstance, repairAmount))

CallDegradeItem ==
  /\ OnInstance
  /\ \E degradeAmount \in DegradeAmounts :
       Wears("degradeItem", degradeAmount, DegradeItem(itemInstance, degradeAmount))

NextDurability == CallRepairItem \/ CallDegradeItem

SpecDurability == InitDurability /\ [][NextDurability]_vars

(***************************************************************************)
(* Properties                                                              *)
(***************************************************************************)
\* the calls made so far with the request's arguments returned the same
SameResults == \A i, j \in 1..Len(res) : res[i] = res[j]

\* C1: determinism.  Generators created by createSubsystemPRNG from the same
\* (worldSeed, subsystem, entityId, turn) return the same value at every
\* position of their draw sequences (next, random, randInt, randFloat,
\* rollDice), and performSkillCheck, rollInitiative and generateLoot called
\* again with equal arguments return equal results, whatever the clock reads.
C1_Determinism ==
  req.fn \in {"draws", "dice", "skill", "initiative", "loot"} => SameResults

\* two sequences of draws were made from equal seeds at different times
C1_Witness ==
  /\ req.fn = "draws"
  /\ Len(res) = MaxCalls
  /\ now > 0
  /\ Len(res[1]) = MaxDraws
  /\ \E k \in 1..Len(res[1]) : res[1][k].op = "rollDice" /\ ~res[1][k].threw

\* C2: the outcome of an engine operation depends on its arguments only, not
\* on the time of the call: generateEnemyLoot called twice with identical
\* arguments returns identical drop lists, and useItem called twice with
\* identical arguments derives the same generator.
C2_TimeIndependent ==
  req.fn \in {"enemyLoot", "useItem"} => SameResults

\* C3: deterministic gameplay at the service level.  The ATTACK and the TALK
\* command processed twice for the same world, user and player state have the
\* same outcome: damage dealt, damage taken and message.
C3_ServiceDeterminism ==
  req.fn \in {"attack", "talk"} => \A i, j \in 1..Len(res) : res[i].message = res[j].message

\* C4: for every notation NdM[(+|-)K] that rollDice accepts, it returns
\* max(0, s + K) or max(0, s - K), s the sum of exactly N draws that each lie
\* in [1, M]; 3d6+2 is in [5, 20] and 1d20 in [1, 20].
C4_DiceContract ==
  req.fn = "dice" =>
    \A i \in 1..Len(res) :
      ~res[i].threw =>
        /\ Len(res[i].draws) = req.numDice
        /\ \A k \in 1..Len(res[i].draws) : res[i].draws[k] \in 1..req.sides
        /\ res[i].v = Max(0, SeqSum(res[i].draws) + req.signedModifier)

\* C5: critical override in performSkillCheck.  A natural 20 is a
\* critical_success, also when roll + modifier is below the target, and a
\* natural 1 is a critical_failure, also when roll + modifier is at least the
\* target + 10, for every modifier and difficulty.
C5_CriticalOverride ==
  req.fn = "skill" =>
    \A i \in 1..Len(res) :
      /\ res[i].roll = 20 => res[i].degree = "critical_success"
      /\ res[i].roll = 1 => res[i].degree = "critical_failure"

\* a natural 20 whose total misses the target
C5_Witness ==
  /\ req.fn = "skill"
  /\ Len(res) > 0
  /\ res[1].roll = 20
  /\ res[1].roll + res[1].totalModifier < res[1].targetDC
  /\ res[1].degree = "critical_success"

\* the entities after turn i of the combat
AfterTurn(i) == IF i < Len(res) THEN res[i + 1].before ELSE entityMap

\* turn i of the combat hit entity id
HitOn(i, id) ==
  /\ ~res[i].threw
  /\ res[i].action.type = "attack"
  /\ res[i].action.targetId = id
  /\ res[i].combatTurn[1].success

\* C6: health floor and clamp.  After every resolveCombatTurn the target's
\* health.current is max(0, previous health.current - damage) on a hit and
\* every health.current is unchanged otherwise; from entities with
\* 0 <= health.current <= health.max, every sequence of turns keeps
\* 0 <= health.current <= health.max for every entity.
C6_HealthFloor ==
  req.fn = "combat" =>
    /\ \A id \in DOMAIN entityMap :
         /\ 0 <= entityMap[id].health.current
         /\ entityMap[id].health.current <= entityMap[id].health.max
    /\ \A i \in 1..Len(res) : \A id \in DOMAIN res[i].before :
         AfterTurn(i)[id].health.current =
           IF HitOn(i, id)
           THEN Max(0, res[i].before[id].health.current - res[i].combatTurn[1].damage[1])
           ELSE res[i].before[id].health.current

\* a hit for more damage than the target had health
C6_Witness ==
  /\ req.fn = "combat"
  /\ \E i \in 1..Len(res) : \E id \in DOMAIN res[i].before :
       /\ HitOn(i, id)
       /\ res[i].combatTurn[1].damage[1] > res[i].before[id].health.current
       /\ res[i].before[id].health.current > 0
       /\ AfterTurn(i)[id].health.current = 0

\* the tiers a drop gained over its archetype
TiersGained(drop) ==
  RarityIndex(drop.rarity) - RarityIndex(ItemArchetypes[drop.archetypeSlug].rarity)

\* C7: rarity monotonicity.  The rarity of a drop of generateItemDrop is not
\* below its archetype's on the ladder common, rare, epic, legendary; no tier
\* is gained without its own successful upgrade roll; and the rarity is the
\* archetype's whenever the first upgrade roll fails.
C7_RarityMonotone ==
  req.fn = "loot" =>
    \A i \in 1..Len(res) : \A k \in 1..Len(res[i]) :
      LET drop == res[i][k]
      IN  /\ TiersGained(drop) >= 0
          /\ TiersGained(drop) <= (IF drop.gate /\ drop.tier = "passed" THEN 1 ELSE 0)
          /\ ~drop.gate => TiersGained(drop) = 0
          /\ drop.tier = "failed" => TiersGained(drop) = 0

\* a drop one tier above its archetype, and one whose tier roll failed
C7_Witness ==
  /\ req.fn = "loot"
  /\ Len(res) > 0
  /\ \E k \in 1..Len(res[1]) : TiersGained(res[1][k]) = 1 /\ res[1][k].tier = "passed"
  /\ \E k \in 1..Len(res[1]) : res[1][k].gate /\ res[1][k].tier = "failed"

\* C8: XP curve monotonicity.  calculateXPForLevel(n + 1) >
\* calculateXPForLevel(n) for every level n from 1 to 100, and
\* calculateXPForLevel(n) = 0 for n <= 1.
C8_XPMonotone ==
  req.fn = "xp" =>
    \A i \in 1..Len(res) :
      /\ req.level <= 1 => res[i].xp = 0
      /\ req.level \in 1..MaxLevel => res[i].next > res[i].xp

\* the first step of the curve, from 0
C8_Witness ==
  /\ req.fn = "xp"
  /\ req.level = 1
  /\ Len(res) > 0
  /\ res[1].xp = 0
  /\ res[1].next > 0

\* C9: round-trip leveling.  For a total experience X >= 0, getLevelFromXP(X)
\* returns the largest level L with calculateTotalXPForLevel(L) <= X:
\* calculateTotalXPForLevel(L) <= X < calculateTotalXPForLevel(L + 1).
C9_LevelRoundTrip ==
  req.fn = "level" =>
    \A i \in 1..Len(res) :
      /\ CalculateTotalXPForLevel(res[i]) <= req.totalXP
      /\ req.totalXP < CalculateTotalXPForLevel(res[i] + 1)

\* a total experience that is exactly the total of a level above 1
C9_Witness ==
  /\ req.fn = "level"
  /\ Len(res) > 0
  /\ res[1] > 1
  /\ req.totalXP = CalculateTotalXPForLevel(res[1])

\* x lies within 10% of b * q
WithinTenPercent(x, b, q) ==
  /\ RatLeq(RatMul(Tenths(9), RatMul(RatInt(b), q)), x)
  /\ RatLeq(x, RatMul(Tenths(11), RatMul(RatInt(b), q)))

\* lo <= x <= hi
RatBetween(x, lo, hi) == RatLeq(RatInt(lo), x) /\ RatLeq(x, RatInt(hi))

\* C10: stat roll bound.  The value generateItemInstance rolls for a stat with
\* base value b at quality q lies within 10% of b * q before rounding; for
\* attack = 10 and quality 1.0 the value before the floor is in [9, 11] and
\* the stored stat is in [9, 11].
C10_StatRollBound ==
  req.fn = "itemInstance" =>
    \A i \in 1..Len(res) : \A k \in 1..Len(res[i].rollData.stats) :
      LET s == res[i].rollData.stats[k]
      IN  /\ WithinTenPercent(s.modifiedValue, s.baseValue, s.quality)
          /\ (s.stat = "attack" /\ s.baseValue = 10 /\ req.context.quality = <<RatInt(1)>>) =>
               /\ RatBetween(s.modifiedValue, 9, 11)
               /\ RatBetween(s.value, 9, 11)

\* attack = 10 at quality 1.0 rolled below 10 and stored as 9
C10_Witness ==
  /\ req.fn = "itemInstance"
  /\ req.context.quality = <<RatInt(1)>>
  /\ Len(res) > 0
  /\ \E k \in 1..Len(res[1].rollData.stats) :
       LET s == res[1].rollData.stats[k]
       IN  /\ s.stat = "attack"
           /\ s.baseValue = 10
           /\ RatLt(s.modifiedValue, RatInt(10))
           /\ s.value = RatInt(9)

\* what the draws on generator id returned, in order
GenOuts(id) ==
  LET calls == SelectSeq(res, LAMBDA e : e.gen = id /\ e.out.op # "resume")
  IN  [k \in 1..Len(calls) |-> calls[k].out]

\* the method calls that returned outs
ScriptOf(outs) ==
  [k \in 1..Len(outs) |->
     IF outs[k].op = "rollDice" THEN OpRollDice(outs[k].notation) ELSE OpNext]

\* C11: no shared generator state.  In every interleaving of draws on two
\* generator objects, also two made from the same (worldSeed, subsystem,
\* entityId, turn), each generator returns the sequence of values that a
\* generator made from its key returns when it is run alone.
C11_NoSharedState ==
  req.fn = "generators" =>
    \A id \in GeneratorIds :
      GenOuts(id) = RunScript(NewGenerator(id), ScriptOf(GenOuts(id)), 1)

\* two generators of one key, drawn from in turn
C11_Witness ==
  /\ req.fn = "generators"
  /\ req.entityIds.a = req.entityIds.b
  /\ Len(res) = 3
  /\ res[1].gen = "a" /\ res[2].gen = "b" /\ res[3].gen = "a"
  /\ \A k \in 1..3 : res[k].out.op = "next"
  /\ res[1].out.v = res[2].out.v
  /\ res[3].out.v # res[1].out.v

\* turn i of the combat names an entity that the map does not hold: its
\* actor, or the target of its attack
NamesAbsentEntity(i) ==
  \/ res[i].action.actorId \notin DOMAIN res[i].before
  \/ /\ res[i].action.type = "attack"
     /\ res[i].action.targetId \notin DOMAIN res[i].before

\* C12: EntityNotFound.  resolveCombatTurn raises an error when the actor of
\* the action is not in the entity map, and also when the target of an
\* attack is not in the entity map; in both cases the health and the status
\* effects of every entity are left as they were.
C12_EntityNotFound ==
  req.fn = "combat" =>
    \A i \in 1..Len(res) :
      NamesAbsentEntity(i) =>
        /\ res[i].threw
        /\ \A id \in DOMAIN res[i].before :
             /\ AfterTurn(i)[id].health = res[i].before[id].health
             /\ AfterTurn(i)[id].statusEffects = res[i].before[id].statusEffects

\* the calls of outs that returned a value
Returned(outs) == SelectSeq(outs, LAMBDA o : o.op # "rollDice" \/ ~o.threw)

\* C13: InvalidDiceNotation.  rollDice on a string that does not match
\* NdM[(+|-)K] raises an error and consumes no draw: the calls that returned
\* a value returned what they return on a generator on which the failed
\* calls were never made.
C13_InvalidDiceNotation ==
  req.fn = "generators" =>
    \A id \in GeneratorIds :
      /\ \A k \in 1..Len(GenOuts(id)) :
           GenOuts(id)[k].op = "rollDice" /\ GenOuts(id)[k].notation \in MalformedNotations
             => GenOuts(id)[k].threw
      /\ Returned(GenOuts(id)) =
           RunScript(NewGenerator(id), ScriptOf(Returned(GenOuts(id))), 1)

\* a draw, a rollDice that failed, and a draw after it, on one generator
C13_Witness ==
  /\ req.fn = "generators"
  /\ Len(res) = 3
  /\ \A k \in 1..3 : res[k].gen = "a"
  /\ res[1].out.op = "next"
  /\ res[2].out.op = "rollDice" /\ res[2].out.threw
  /\ res[3].out.op = "next"

\* the calls on generator id that returned a value, in order
ChoicesMade(id) == SelectSeq(res, LAMBDA e : e.gen = id /\ ~e.out.threw)

\* the set of the elements of a sequence
Elements(seq) == {seq[k] : k \in 1..Len(seq)}

\* the input of a call of choice or weightedChoice is one the spec rejects
RejectedInput(o) ==
  IF o.op = "choice" THEN Len(o.array) = 0
  ELSE Len(o.items) = 0 \/ Len(o.items) # Len(o.weights) \/ SeqSum(o.weights) <= 0

\* C14: EmptyChoiceSet.  choice on an empty array, and weightedChoice on an
\* empty item list, on items and weights of different lengths, or on weights
\* whose total is at most 0, raise an error and consume no draw; on every
\* other input they return an element of the input.
C14_EmptyChoiceSet ==
  req.fn = "choices" =>
    /\ \A k \in 1..Len(res) :
         /\ res[k].out.threw <=> RejectedInput(res[k].call)
         /\ ~res[k].out.threw =>
              res[k].out.v \in Elements(IF res[k].call.op = "choice"
                                        THEN res[k].call.array ELSE res[k].call.items)
    /\ LET p == ChoicesMade("p")
           d == ChoicesMade("d")
       IN  /\ [k \in 1..Len(p) |-> p[k].out] =
                RunScript(CreateSubsystemPRNG(req.worldSeed, "loot", req.entityId, 0),
                          [k \in 1..Len(p) |-> p[k].call], 1)
           /\ [k \in 1..Len(d) |-> d[k].out] =
                RunScript(DetNew(req.worldSeed, "loot", req.entityId, 0),
                          [k \in 1..Len(d) |-> d[k].call], 1)

\* a weightedChoice that failed between two that returned an element
C14_Witness ==
  /\ req.fn = "choices"
  /\ Len(res) = 3
  /\ \A k \in 1..3 : res[k].call.op = "weightedChoice"
  /\ ~res[1].out.threw /\ res[2].out.threw /\ ~res[3].out.threw
  /\ res[1].call = res[3].call
  /\ res[1].out.v # res[3].out.v

\* generator id was suspended and resumed
Resumed(id) == \E k \in 1..Len(res) : res[k].gen = id /\ res[k].out.op = "resume"

\* C15: serialize/restore round trip.  For a generator in a state reached by
\* any number of draws, the generator on which setState(getState()) of it is
\* called returns the same string from getState() and the same draws from
\* then on: the draws before and after the resumption are those of one
\* generator that was never suspended.
C15_StateRoundTrip ==
  req.fn = "generators" =>
    /\ \A k \in 1..Len(res) :
         res[k].out.op = "resume" => res[k].out.restored = res[k].out.saved
    /\ \A id \in GeneratorIds :
         Resumed(id) => GenOuts(id) = RunScript(NewGenerator(id), ScriptOf(GenOuts(id)), 1)

\* a draw, the resumption, and a draw of the resumed generator
C15_Witness ==
  /\ req.fn = "generators"
  /\ Len(res) = 3
  /\ \A k \in 1..3 : res[k].gen = "b"
  /\ res[1].out.op = "rollDice" /\ ~res[1].out.threw
  /\ res[2].out.op = "resume"
  /\ res[3].out.op = "next"

\* the ids of the entities of map e whose health.current satisfies Test
IdsWith(e, Test(_)) == {id \in DOMAIN e : Test(e[id].health.current)}

\* C16: checkCombatEnd reports ended = true exactly when at most one entity
\* has health.current > 0.  When ended, the outcome is victory if exactly one
\* entity survives and defeat if none does, survivors are the ids with
\* health > 0 and casualties the ids with health = 0; when not ended, the
\* outcome is null and both lists are empty.
C16_CombatEnd ==
  req.fn = "combat" =>
    \A i \in 1..Len(res) :
      LET alive == IdsWith(AfterTurn(i), LAMBDA h : h > 0)
          dead == IdsWith(AfterTurn(i), LAMBDA h : h = 0)
          end == res[i].end
      IN  /\ end.ended <=> Cardinality(alive) <= 1
          /\ end.ended =>
               /\ end.outcome = IF Cardinality(alive) = 1 THEN "victory" ELSE "defeat"
               /\ Elements(end.survivors) = alive
               /\ Elements(end.casualties) = dead
          /\ ~end.ended =>
               /\ end.outcome = "null"
               /\ end.survivors = <<>>
               /\ end.casualties = <<>>

\* a combat that is not ended after its first turn, with one entity dead
\* among three, and that the second turn ends with one survivor
C16_Witness ==
  /\ req.fn = "combat"
  /\ Len(res) = 2
  /\ "bat" \in DOMAIN entityMap
  /\ ~res[1].end.ended
  /\ res[2].end.ended
  /\ res[2].end.outcome = "victory"
  /\ res[2].end.survivors = <<"hero">>
  /\ res[2].end.casualties = <<"wolf", "bat">>

\* entity carries an active defensive stance: +2 armor, +2 damageReduction
InDefensiveStance(entity) ==
  \E k \in 1..Len(entity.statusEffects) :
    /\ entity.statusEffects[k].id = "defensive_stance"
    /\ entity.statusEffects[k].duration > 0
    /\ entity.statusEffects[k].effects = [armor |-> 2, damageReduction |-> 2]

\* C17: defend.  When resolveCombatTurn has resolved a defend action, the
\* acting entity carries an active defensive-stance status effect, so that
\* the next attack on it meets an armor class raised by the +2 armor.
C17_DefendStance ==
  req.fn = "combat" =>
    \A i \in 1..Len(res) :
      ~res[i].threw /\ res[i].action.type = "defend" =>
        /\ InDefensiveStance(AfterTurn(i)[res[i].action.actorId])
        /\ CalculateAC(AfterTurn(i)[res[i].action.actorId]) >=
             CalculateAC([res[i].before[res[i].action.actorId] EXCEPT
                            !.statusEffects = <<>>]) + 2

\* the effects of old that last longer than one more turn, each with its
\* duration reduced by 1
OneTurnLater(old) ==
  LET lasting == SelectSeq(old, LAMBDA effect : effect.duration > 1)
  IN  [k \in 1..Len(lasting) |-> [lasting[k] EXCEPT !.duration = lasting[k].duration - 1]]

\* C18: status effect bookkeeping.  After resolveCombatTurn has returned,
\* for any kind of action, every status effect that was on the actor has its
\* duration reduced by exactly 1 and is gone when the duration reached 0, no
\* effect with duration <= 0 is left on the actor, and the status effects of
\* every other entity are unchanged.
C18_StatusEffectTick ==
  req.fn = "combat" =>
    \A i \in 1..Len(res) :
      ~res[i].threw =>
        \A id \in DOMAIN res[i].before :
          IF id = res[i].action.actorId
          THEN /\ AfterTurn(i)[id].statusEffects = OneTurnLater(res[i].before[id].statusEffects)
               /\ \A k \in 1..Len(AfterTurn(i)[id].statusEffects) :
                    AfterTurn(i)[id].statusEffects[k].duration > 0
          ELSE AfterTurn(i)[id].statusEffects = res[i].before[id].statusEffects

\* an effect of duration 2 on the actor, reduced to 1 by an attack turn and
\* removed by the next turn of the same actor
C18_Witness ==
  /\ req.fn = "combat"
  /\ Len(res) = 2
  /\ res[1].action.actorId = "hero" /\ res[2].action.actorId = "hero"
  /\ res[1].action.type = "attack"
  /\ Len(res[1].before["hero"].statusEffects) = 1
  /\ res[1].before["hero"].statusEffects[1].duration = 2
  /\ res[2].before["hero"].statusEffects[1].duration = 1
  /\ entityMap["hero"].statusEffects = <<>>

\* C19: rarity-upgrade chain.  From the archetype's rarity the upgrade pass
\* rolls for each next tier of the ladder in turn, goes on to the following
\* tier's roll after every roll that passed, and stops only at the first roll
\* that failed or at legendary: a pass that has stopped either made a roll
\* that failed or has reached legendary, so a drop can rise several tiers.
C19_RarityChain ==
  req.fn = "loot" =>
    \A i \in 1..Len(res) : \A k \in 1..Len(res[i]) :
      res[i][k].gate => res[i][k].tier = "failed" \/ res[i][k].rarity = "legendary"

\* C20: the skill modifier.  For every value of the primary stat from 0
\* upwards, 0 included, every level and every set of situational modifiers,
\* the totalModifier of performSkillCheck is floor((statValue - 10) / 2) plus
\* the proficiency bonus (ceil(level / 4) + 1 when proficient, else 0) plus
\* the skill bonus plus the sum of the situational modifiers, and success is
\* true exactly when roll + totalModifier reaches the DC of the difficulty
\* (easy 10, normal 15, hard 20, extreme 25).
C20_SkillModifier ==
  req.fn = "skill" =>
    \A i \in 1..Len(res) :
      LET skill == req.check.skill
          primaryStat == SkillStatMap[skill]
          bonusKey == SkillBonusKey[skill]
          statModifier == (req.stats[primaryStat] - 10) \div 2
          proficiencyBonus ==
            IF skill \in req.proficiencies THEN CeilDiv(req.level, 4) + 1 ELSE 0
          skillBonus == IF bonusKey \in DOMAIN req.stats THEN req.stats[bonusKey] ELSE 0
          DC == [easy |-> 10, normal |-> 15, hard |-> 20, extreme |-> 25]
      IN  (skill \in DOMAIN SkillStatMap /\ primaryStat \in DOMAIN req.stats /\ req.stats[primaryStat] >= 0) =>
            /\ res[i].totalModifier =
                 statModifier + proficiencyBonus + skillBonus + SeqSum(req.check.modifiers)
            /\ res[i].success <=> (res[i].roll + res[i].totalModifier >= DC[req.check.difficulty])

\* the difficulties from the easiest to the hardest
DifficultyStep == [easy |-> 0, normal |-> 1, hard |-> 2, extreme |-> 3]

\* C21: calculateDynamicDifficulty shifts the difficulty in the direction of
\* the level gap = baseLevel - playerLevel.  The result is easy when the gap
\* is at most -5 and extreme when it is at least 5; for a gap of 2 to 4 it is
\* never easier than baseDifficulty; for a gap of -4 to -2 it is never harder
\* than baseDifficulty and at most one step away from it; for a gap of -1 to 1
\* it is baseDifficulty, for all four base difficulties.
C21_DynamicDifficulty ==
  req.fn = "difficulty" =>
    \A i \in 1..Len(res) :
      LET gap == req.baseLevel - req.playerLevel
          base == DifficultyStep[req.baseDifficulty]
          result == DifficultyStep[res[i]]
      IN  /\ gap <= -5 => res[i] = "easy"
          /\ gap >= 5 => res[i] = "extreme"
          /\ (2 <= gap /\ gap <= 4) => result >= base
          /\ (-4 <= gap /\ gap <= -2) => (result <= base /\ base - result <= 1)
          /\ (-1 <= gap /\ gap <= 1) => res[i] = req.baseDifficulty

\* the place of entity id in the input of rollInitiative
InputPlace(id) == CHOOSE i \in 1..Len(req.combatants) : req.combatants[i].id = id

\* d20 + dexterity modifier of entity id: the d20 of the generator of
\* (worldSeed, initiative, id, 0) and floor((dexterity - 10) / 2) of the
\* entity's effective stats
InitiativeOf(id) ==
  LET entity == req.combatants[InputPlace(id)]
      rng == CreateSubsystemPRNG(req.worldSeed, "initiative", id, 0)
      dexterity == StatOr(CalculateEffectiveStats(entity), "dexterity", 10)
  IN  PrngRollDice(rng, <<"1", "d", "2", "0">>).v + ((dexterity - 10) \div 2)

\* C22: rollInitiative returns a permutation of the input entity ids ordered
\* by non-increasing initiative, d20 + dexterity modifier, and entities of
\* equal initiative keep their input order; an entity's initiative depends
\* only on the world seed, its id and its stats.
C22_InitiativeOrder ==
  req.fn = "initiative" =>
    \A i \in 1..Len(res) :
      /\ Len(res[i]) = Len(req.combatants)
      /\ \A k \in 1..Len(req.combatants) : \E j \in 1..Len(res[i]) : res[i][j] = req.combatants[k].id
      /\ \A j \in 1..(Len(res[i]) - 1) :
           \/ InitiativeOf(res[i][j]) > InitiativeOf(res[i][j + 1])
           \/ /\ InitiativeOf(res[i][j]) = InitiativeOf(res[i][j + 1])
              /\ InputPlace(res[i][j]) < InputPlace(res[i][j + 1])

\* the ids of the affix pool of the slot of a drop's archetype
PoolIds(drop) ==
  LET pool == GetAffixPool(ItemArchetypes[drop.archetypeSlug].slot,
                           ItemArchetypes[drop.archetypeSlug].tags)
  IN  {pool[k].id : k \in 1..Len(pool)}

\* the numbers of affixes a rarity allows
AffixCounts == [common |-> {0}, rare |-> {1, 2}, epic |-> {2, 3}, legendary |-> {3, 4}]

\* C23: affixes.  A drop of rarity common has no affixes; a drop of rarity
\* rare, epic or legendary has 1-2, 2-3 or 3-4 affixes, with pairwise
\* distinct ids drawn from the generic and the slot's pool.
C23_Affixes ==
  req.fn = "loot" =>
    \A i \in 1..Len(res) : \A k \in 1..Len(res[i]) :
      LET drop == res[i][k]
      IN  /\ Len(drop.affixes) \in AffixCounts[drop.rarity]
          /\ \A a \in 1..Len(drop.affixes) : drop.affixes[a].id \in PoolIds(drop)
          /\ \A a, b \in 1..Len(drop.affixes) :
               a # b => drop.affixes[a].id # drop.affixes[b].id

\* a loot call returned a legendary drop with four affixes, one of them of
\* the pool of its slot
C23_Witness ==
  /\ req.fn = "loot"
  /\ \E i \in 1..Len(res) :
       \E k \in 1..Len(res[i]) :
         /\ res[i][k].rarity = "legendary"
         /\ Len(res[i][k].affixes) = 4
         /\ \E a \in 1..4 : res[i][k].affixes[a].id \in {"mana_boost", "wisdom_boost"}

\* call i returned before executeCommand call j made its first read
ReturnedBefore(i, j) ==
  /\ inFlight[j].call.op = "executeCommand"
  /\ inFlight[j].pc # "findAction"
  /\ \E k \in 1..Len(res) : res[k].call = i /\ k <= inFlight[j].after

\* call i processed a skill check
RolledSkillCheck(i) == "seed" \in DOMAIN inFlight[i].sync

\* C24: no seed reuse across distinct events.  Two successive skill checks
\* processed for the same user in the same world take their d20 from
\* different (worldSeed, subsystem, entityId, turn) tuples: the turn counter
\* supplied is strictly increasing.
C24_NoSeedReuse ==
  req.fn = "service" =>
    \A i, j \in DOMAIN inFlight :
      (ReturnedBefore(i, j) /\ RolledSkillCheck(i) /\ RolledSkillCheck(j)) =>
        /\ inFlight[i].sync.seed # inFlight[j].sync.seed
        /\ inFlight[i].sync.seed[4] < inFlight[j].sync.seed[4]

\* C25: stat points.  getLevelInfo awards 1 stat point per level gained and
\* a bonus at every milestone level 5, 10, 15, ..., every multiple of 5: the
\* stat points of a level exceed those of the level before by more than 1
\* exactly when the level is a multiple of 5, and statPoints is non-decreasing
\* in the total experience.
C25_StatPoints ==
  req.fn = "levelInfo" =>
    \A i \in 1..Len(res) :
      /\ res[i].later.statPoints >= res[i].info.statPoints
      /\ res[i].later.level = res[i].info.level + 1 =>
           (res[i].later.statPoints - res[i].info.statPoints > 1
              <=> res[i].later.level % 5 = 0)

\* the entities of a map with health left
AliveIn(entities) == {id \in DOMAIN entities : entities[id].health.current > 0}

\* C26: the combat reaches the fled outcome.  From an active combat, at least
\* 2 entities with health > 0, a flee action that resolves with success ends
\* the combat: checkCombatEnd reports ended with outcome fled; and the outcome
\* of an ended combat is one of victory, defeat, fled.
C26_FledOutcome ==
  req.fn = "combat" =>
    \A i \in 1..Len(res) :
      /\ res[i].end.ended => res[i].end.outcome \in {"victory", "defeat", "fled"}
      /\ ( /\ ~res[i].threw
            /\ res[i].action.type = "flee"
            /\ res[i].combatTurn[1].success
            /\ Cardinality(AliveIn(res[i].before)) >= 2 )
           => (res[i].end.ended /\ res[i].end.outcome = "fled")

\* a PlayerService method applied alone to a row: the row afterwards
AppliedAlone(row, call) ==
  UpdatePlayerState(row, MethodStep(call.op, row, call.amount).updates)

\* the rows that the calls of set todo leave when they are applied to row one
\* after the other, in every order
RECURSIVE SequentialRows(_, _)
SequentialRows(row, todo) ==
  IF todo = {} THEN {row}
  ELSE UNION { SequentialRows(AppliedAlone(row, req.batch[i]), todo \ {i}) : i \in todo }

\* every call of the request is a PlayerService method, and all returned
MethodsReturned ==
  /\ \A i \in DOMAIN inFlight :
       inFlight[i].call.op # "executeCommand" /\ inFlight[i].pc = "returned"

\* C27: writes to a player's row are serialized.  For any interleaving of
\* concurrent damagePlayer, healPlayer and addExperience calls on the same
\* (userId, worldId) the stored health and experience at the end are those of
\* the calls applied in some sequential order, no update lost, and
\* 0 <= health.current <= health.max in every stored state.
C27_SerializedWrites ==
  req.fn = "service" =>
    /\ 0 <= db.playerState.health.current
    /\ db.playerState.health.current <= db.playerState.health.max
    /\ MethodsReturned =>
         \E row \in SequentialRows(req.playerState, DOMAIN inFlight) :
           /\ db.playerState.health = row.health
           /\ db.playerState.experience = row.experience

\* the executeCommand calls that carry idempotency key k
Carrying(k) ==
  {i \in DOMAIN inFlight :
     inFlight[i].call.op = "executeCommand" /\ inFlight[i].call.idempotencyKey = k}

\* call i went into processCommand
Processed(i) == inFlight[i].playerState # <<>>

\* C28: command idempotency.  For any interleaving of executeCommand calls
\* that carry the same idempotencyKey the command is processed at most once,
\* its events are emitted once, and every call returns the same outcome; a
\* later call with a key whose outcome is stored returns the stored outcome
\* without processing.
C28_Idempotency ==
  req.fn = "service" =>
    \A k \in {"k1", "k2"} :
      /\ Cardinality({i \in Carrying(k) : Processed(i)}) <= 1
      /\ Cardinality({e \in 1..Len(outbox) : outbox[e].call \in Carrying(k)}) <= 1
      /\ \A a, b \in 1..Len(res) :
           (res[a].call \in Carrying(k) /\ res[b].call \in Carrying(k))
             => res[a].value = res[b].value
      /\ \A i \in Carrying(k) :
           (inFlight[i].pc # "findAction" /\ \E j \in Carrying(k) : ReturnedBefore(j, i))
             => (~Processed(i) /\ inFlight[i].outcome = db.action[k])

\* the instance after call i of the log
InstanceAfter(i) == IF i < Len(res) THEN res[i + 1].before ELSE itemInstance

\* C29: durability.  For an item instance with durability, after any sequence
\* of degradeItem and repairItem calls 0 <= durability.current <=
\* durability.max and max is what it was; repairItem with repairAmount k
\* raises current by exactly min(k, max - current) and reports success only
\* when that amount is > 0; degradeItem reports broken exactly when current
\* becomes 0.
C29_Durability ==
  req.fn = "durability" =>
    \A i \in 1..Len(res) :
      Len(res[i].before.rollData.durability) > 0 =>
        LET before == res[i].before.rollData.durability[1]
            after == InstanceAfter(i).rollData.durability[1]
            k == res[i].amount[1]
        IN  /\ 0 <= after.current
            /\ after.current <= after.max
            /\ after.max = before.max
            /\ (res[i].op = "repairItem" /\ Len(res[i].amount) > 0) =>
                 /\ after.current - before.current = Min(k, before.max - before.current)
                 /\ res[i].result.success => Min(k, before.max - before.current) > 0
            /\ res[i].op = "degradeItem" => (res[i].result.broken <=> after.current = 0)

\* C30: SkillResult consistency.  In every result of performSkillCheck the
\* success flag is true exactly when the degree is success or
\* critical_success, and false exactly when it is failure or
\* critical_failure: a caller that rewards on the flag and a caller that
\* dispatches on the degree agree.
C30_SkillResultConsistency ==
  req.fn = "skill" =>
    \A i \in 1..Len(res) :
      /\ res[i].success <=> res[i].degree \in {"success", "critical_success"}
      /\ ~res[i].success <=> res[i].degree \in {"failure", "critical_failure"}

\* C30, as the code has it: the success flag says whether roll + totalModifier
\* reaches the target, and it agrees with the degree whenever the natural
\* roll is neither 1 nor 20; a natural 1 or 20 fixes the degree whatever the
\* flag says.
C30_FlagAndDegree ==
  req.fn = "skill" =>
    \A i \in 1..Len(res) :
      /\ res[i].success <=> (res[i].roll + res[i].totalModifier >= res[i].targetDC)
      /\ res[i].degree \in {"critical_failure", "failure", "success", "critical_success"}
      /\ res[i].roll \notin {1, 20} =>
           (res[i].success <=> res[i].degree \in {"success", "critical_success"})

\* a check whose total reaches the target on a natural 1: the flag says
\* success and the degree critical_failure
C30_Witness ==
  /\ req.fn = "skill"
  /\ Len(res) > 0
  /\ res[1].roll = 1
  /\ res[1].success
  /\ res[1].degree = "critical_failure"
====
